---- MODULE Spec2Model ----
(***************************************************************************)
(* A model of the Mt. Fuji particle weather scene: the terrain height      *)
(* function, the weather classifier, the solar clock, the particle         *)
(* populations advanced by the per-frame callbacks, and the weather hook   *)
(* that gates the scene.                                                   *)
(*                                                                         *)
(* Numbers are fixed-point.  Scene coordinates, heights and angles of the  *)
(* terrain function are in thousandths (1000 = 1.0).                       *)
(***************************************************************************)
EXTENDS Integers, Sequences, FiniteSets, TLC

VARIABLES
    vertexI,             \* MountainMeshFlat: the vertex loop's index i
    hx, hz,              \* the (x, z) last handed to getMountainHeight
    heightOut,           \* getMountainHeight(hx, hz), ParticleScene.tsx
    heightOutParticles,  \* getMountainHeight(hx, hz), the particle-mountain scene
    code,                \* the code last handed to getWeatherType
    weatherType,         \* getWeatherType(code)
    prevCode,            \* the call before it: its code
    prevType,            \*   and its result
    sunHook,             \* which useSunPosition is built: "sun" or "moon"
    clockHour,           \* the wall clock: the hour of day in Asia/Tokyo
    sunData,             \* useSunPosition: the state it returns
    sunHours,            \* updateSun: `hours` of its last run, -1 before it
    sunPhase,            \* "rendered", "mounted" (effect ran) or "unmounted"
    sunInterval,         \* whether the 60 s interval is set
    wpCode,              \* WeatherParticles: weatherCode of its last render
    wpCount,             \*   particleCount (memo)
    wpParticles,         \*   particles (memo): the tracked head of the pool
    wpColor,             \*   color (memo)
    wpDummy,             \*   dummy, the scratch Object3D: its rotation
    wpMatrix,            \*   the mesh's instance transforms, <<>> without a mesh
    wpFrames,            \*   frame updates since the pool was seeded
    wpPrevType,          \*   the category of the render before the last
    wpAge,               \*   each particle's updates since its seeding or reset
    apCode,              \* AmbientParticles: weatherCode of its last render
    apCount,             \*   particleCount (memo), 0 before the first render
    apParticles,         \*   particles (memo): the tracked head of the pool
    apColor,             \*   color (memo)
    apMatrix,            \*   the mesh's instance transforms
    vcCode,              \* VolumetricClouds: weatherCode of its last render
    groupX,              \*   groupRef.current.position.x
    cpMounted,           \* CloudParticles: its instanced mesh exists
    initialPositions,    \*   the initialPositions memo, <<x, y, z>> each
    cpMatrix,            \*   the positions committed with setMatrixAt
    elapsedTime,         \* state.clock.elapsedTime at the last frame
    frameDelta,          \* the delta of the last frame
    cloudFrames,         \* frames the clouds were updated in
    data,                \* useWeather: the state it returns
    fetches,             \*   calls of fetchWeather that have not settled
    writer,              \* how the fetch that wrote data last ranks among those started
    settled,             \*   how the last fetchWeather settled, "none" before it
    weatherInterval,     \*   whether the 30 min interval is set
    weatherPhase,        \*   "rendered", "mounted" (effect ran) or "unmounted"
    sceneMounted,        \* HeroSection: ParticleScene is in its output
    sceneCode,           \*   the weatherCode prop it was given, -1 without it
    sceneFrames,         \* frames the mounted scene has drawn
    frameCategory,       \* the category of the last frame, "none" before it
    vcNight,             \* VolumetricClouds: isNight of its last render
    meshNight,           \* MountainMeshFlat: isNight of its last render
    cameraPosition,      \* camera.position, <<x, y, z>>
    cameraLookAt,        \* the point the camera was last aimed at
    mouseRef,            \* CameraController: mouseRef.current, <<x, y>>
    cameraFrames,        \* frames the CameraController has drawn
    mpPositions,         \* MountainParticles: positions, one <<x, y, z>> per particle
    mpScales,            \* MountainParticles: scales
    mpMatrix,            \* instance transforms of the mountain particles
    mpFrames,            \* frames MountainParticles has drawn
    opCode,              \* ParticleSystem: weatherCode of its last render
    opParticles,         \* ParticleSystem: particles
    opMatrix,            \* instance transforms of the overlay particles
    opMouse,             \* ParticleWeather: mousePosition.current, <<x, y>>
    opFrames             \* frame updates since the overlay was seeded

heightVars == <<vertexI, hx, hz, heightOut, heightOutParticles>>

classifyVars == <<code, weatherType, prevCode, prevType>>

sunVars == <<sunHook, clockHour, sunData, sunHours, sunPhase, sunInterval>>

ambientVars == <<apCode, apCount, apParticles, apColor, apMatrix>>

cloudVars == <<vcCode, groupX, cpMounted, initialPositions, cpMatrix,
               elapsedTime, frameDelta, cloudFrames>>

precipVars == <<wpCode, wpCount, wpParticles, wpColor, wpDummy,
                wpMatrix, wpFrames, wpPrevType, wpAge>>

weatherVars == <<data, fetches, writer, settled, weatherInterval, weatherPhase, sceneMounted,
                 sceneCode, sceneFrames, frameCategory>>

paletteVars == <<vcNight, meshNight>>

cameraVars == <<cameraPosition, cameraLookAt, mouseRef, cameraFrames>>

mountainVars == <<mpPositions, mpScales, mpMatrix, mpFrames>>

overlayVars == <<opCode, opParticles, opMatrix, opMouse, opFrames>>

vars == <<heightVars, classifyVars, sunVars, precipVars, ambientVars,
          cloudVars, weatherVars, paletteVars, cameraVars, mountainVars,
          overlayVars>>

\* What the steps of one part of the scene leave alone.
outsideHeight == <<classifyVars, sunVars, precipVars, ambientVars, cloudVars,
                   weatherVars, paletteVars, cameraVars, mountainVars,
                   overlayVars>>

outsideClassify == <<heightVars, sunVars, precipVars, ambientVars, cloudVars,
                     weatherVars, paletteVars, cameraVars, mountainVars,
                     overlayVars>>

outsideSun == <<heightVars, classifyVars, precipVars, ambientVars, cloudVars,
                weatherVars, paletteVars, cameraVars, mountainVars,
                overlayVars>>

outsidePrecip == <<heightVars, classifyVars, sunVars, ambientVars, cloudVars,
                   weatherVars, paletteVars, cameraVars, mountainVars,
                   overlayVars>>

outsideClouds == <<heightVars, classifyVars, sunVars, precipVars, ambientVars,
                   weatherVars, paletteVars, cameraVars, mountainVars,
                   overlayVars>>

outsideScene == <<heightVars, classifyVars, sunVars, cloudVars, weatherVars,
                  paletteVars, cameraVars, mountainVars, overlayVars>>

outsideWeather == <<heightVars, classifyVars, sunVars, precipVars,
                    ambientVars, cloudVars, paletteVars, cameraVars,
                    mountainVars, overlayVars>>

outsideCamera == <<heightVars, classifyVars, sunVars, precipVars, ambientVars,
                   cloudVars, weatherVars, paletteVars, mountainVars,
                   overlayVars>>

outsideMountain == <<heightVars, classifyVars, sunVars, ambientVars,
                     cloudVars, precipVars, weatherVars, paletteVars,
                     cameraVars, overlayVars>>

outsideOverlay == <<heightVars, classifyVars, sunVars, ambientVars, cloudVars,
                    precipVars, weatherVars, paletteVars, cameraVars,
                    mountainVars>>

----------------------------------------------------------------------------
(* Math.* on fixed-point numbers (thousandths).                            *)

Max(a, b) == IF a >= b THEN a ELSE b

Min(a, b) == IF a <= b THEN a ELSE b

\* Math.PI, in thousandths.
MathPI == 3142

RECURSIVE SqrtSearch(_, _, _)
SqrtSearch(n, lo, hi) ==
    IF lo >= hi THEN lo
    ELSE LET mid == (lo + hi + 1) \div 2
         IN  IF mid * mid <= n THEN SqrtSearch(n, mid, hi)
             ELSE SqrtSearch(n, lo, mid - 1)

\* Math.sqrt of n millionths, in thousandths (rounded down).
MathSqrt(n) == SqrtSearch(n, 0, 46340)

\* sin t for 0 <= t <= pi/2 by its Taylor polynomial of degree 7.
SinTaylor(t) ==
    LET t2 == (t * t) \div 1000
        t3 == (t2 * t) \div 1000
        t5 == (t3 * t2) \div 1000
        t7 == (t5 * t2) \div 1000
    IN  Min(1000, t - (t3 \div 6) + (t5 \div 120) - (t7 \div 5040))

\* Math.sin of a thousandths of a radian, in thousandths.
MathSin(a) ==
    LET r == a % (2 * MathPI)
        half == MathPI \div 2
    IN  IF r <= half THEN SinTaylor(r)
        ELSE IF r <= MathPI THEN SinTaylor(MathPI - r)
        ELSE IF r <= MathPI + half THEN -SinTaylor(r - MathPI)
        ELSE -SinTaylor(2 * MathPI - r)

\* Math.cos of a thousandths of a radian, in thousandths.
MathCos(a) == MathSin(a + MathPI \div 2)

\* a * b of two fixed-point numbers, rounded toward zero as a product of
\* magnitudes (\div alone rounds negative quotients down).
Mul(a, b) ==
    LET p == a * b
    IN  IF p >= 0 THEN p \div 1000 ELSE -((-p) \div 1000)

\* a * n / d for integers n, d > 0, rounded toward zero.
Scale(a, n, d) ==
    IF a >= 0 THEN (a * n) \div d ELSE -(((-a) * n) \div d)

----------------------------------------------------------------------------
(* Terrain height function.                                                *)

\* Math.cos(Math.atan2(z, x)): x / distance, and cos(atan2(0, 0)) = cos 0 = 1.
CosAtan2(z, x, distance) ==
    IF distance = 0 THEN 1000 ELSE Scale(x, 1000, distance)

\* The conical base with the caldera carved out of it.
craterBase(distance) ==
    LET baseHeight == Max(0, 15000 - Scale(distance, 8, 10))
        craterRadius == 1800
        craterDepth == 1200
    IN  IF distance < craterRadius /\ baseHeight > 13000
        THEN LET craterFactor ==
                     1000 - MathCos(Mul(Scale(distance, 1000, craterRadius),
                                        MathPI \div 2))
             IN  baseHeight - Mul(1000 - craterFactor, craterDepth)
        ELSE baseHeight

\* noise + asymmetry * 0.3 of getMountainHeight.
surfaceTerms(x, z, distance) ==
    LET noise == Scale(Mul(MathSin(x * 2), MathCos(z * 2)), 3, 10)
                 + Scale(MathSin(x * 5 + z * 3), 1, 10)
        asymmetry == Scale(CosAtan2(z, x, distance), 5, 10)
    IN  noise + Scale(asymmetry, 3, 10)

\* baseHeight + noise + asymmetry * 0.3, before the final Math.max(0, .).
mountainRaw(x, z) ==
    LET distance == MathSqrt(x * x + z * z)
    IN  craterBase(distance) + surfaceTerms(x, z, distance)

\* Mutant: the final Math.max(0, .) is dropped.
getMountainHeightUnclamped(x, z) == mountainRaw(x, z)

\* getMountainHeight of ParticleScene.tsx (with the crater).
getMountainHeight(x, z) == Max(0, mountainRaw(x, z))

\* getMountainHeight of the particle-mountain scene (no crater).
getMountainHeightParticles(x, z) ==
    LET distance == MathSqrt(x * x + z * z)
        baseHeight == Max(0, 15000 - Scale(distance, 8, 10))
    IN  Max(0, baseHeight + surfaceTerms(x, z, distance))

\* MountainMeshFlat: a size x size plane of segments x segments cells.
segments == 64

size == 40

\* pos.count of the plane geometry: (segments + 1) ^ 2 vertices.
vertexCount == (segments + 1) * (segments + 1)

\* pos.getX(i), pos.getZ(i): the plane's vertices row by row, each row from
\* -size / 2 to size / 2 in steps of size / segments.
vertexX(i) == ((i % (segments + 1)) * size * 1000) \div segments - (size * 1000) \div 2

vertexZ(i) == ((i \div (segments + 1)) * size * 1000) \div segments - (size * 1000) \div 2

\* Before the mesh is built nothing has been evaluated; the model starts at
\* the summit so that the outputs are defined.
InitHeight ==
    /\ vertexI = 0
    /\ hx = 0
    /\ hz = 0
    /\ heightOut = getMountainHeight(0, 0)
    /\ heightOutParticles = getMountainHeightParticles(0, 0)

\* One turn of the vertex loop of the mesh's useMemo: the height at vertex i.
MeshVertex ==
    /\ vertexI < vertexCount
    /\ hx' = vertexX(vertexI)
    /\ hz' = vertexZ(vertexI)
    /\ heightOut' = getMountainHeight(vertexX(vertexI), vertexZ(vertexI))
    /\ heightOutParticles' =
           getMountainHeightParticles(vertexX(vertexI), vertexZ(vertexI))
    /\ vertexI' = vertexI + 1
    /\ UNCHANGED outsideHeight

\* isNight changed: the useMemo runs again from the first vertex.
MeshRebuild ==
    /\ vertexI = vertexCount
    /\ vertexI' = 0
    /\ UNCHANGED <<hx, hz, heightOut, heightOutParticles>>
    /\ UNCHANGED outsideHeight

----------------------------------------------------------------------------
(* Weather classifier.                                                     *)

WeatherTypes == {"sunny", "cloudy", "rainy", "snowy"}

\* Mutant: code 3 (overcast) is left out of the cloudy test.
getWeatherTypeNo3(c) ==
    IF c = 0 \/ c = 1 THEN "sunny"
    ELSE IF c = 2 \/ c = 45 \/ c = 48 THEN "cloudy"
    ELSE IF c >= 51 /\ c <= 67 THEN "rainy"
    ELSE IF c >= 71 /\ c <= 77 THEN "snowy"
    ELSE IF c >= 80 /\ c <= 82 THEN "rainy"
    ELSE IF c >= 85 /\ c <= 86 THEN "snowy"
    ELSE IF c >= 95 THEN "rainy"
    ELSE "sunny"

\* Mutant: the snow showers 85-86 are taken for rain showers (80 to 86).
getWeatherTypeShowers(c) ==
    IF c = 0 \/ c = 1 THEN "sunny"
    ELSE IF c = 2 \/ c = 3 \/ c = 45 \/ c = 48 THEN "cloudy"
    ELSE IF c >= 51 /\ c <= 67 THEN "rainy"
    ELSE IF c >= 71 /\ c <= 77 THEN "snowy"
    ELSE IF c >= 80 /\ c <= 86 THEN "rainy"
    ELSE IF c >= 95 THEN "rainy"
    ELSE "sunny"

getWeatherType(c) ==
    IF c = 0 \/ c = 1 THEN "sunny"
    ELSE IF c = 2 \/ c = 3 \/ c = 45 \/ c = 48 THEN "cloudy"
    ELSE IF c >= 51 /\ c <= 67 THEN "rainy"
    ELSE IF c >= 71 /\ c <= 77 THEN "snowy"
    ELSE IF c >= 80 /\ c <= 82 THEN "rainy"
    ELSE IF c >= 85 /\ c <= 86 THEN "snowy"
    ELSE IF c >= 95 THEN "rainy"
    ELSE "sunny"

\* How far below 0 and above 99 the codes of the model reach.
CodeMargin == 6

\* The codes handed to the classifier: the WMO table 0..99, a margin on
\* both sides of it, and one code far above it.
Codes == (-CodeMargin .. 99 + CodeMargin) \cup {9999}

\* The codes of the known WMO ranges.
KnownCodes ==
    (0..3) \cup {45, 48} \cup (51..67) \cup (71..77) \cup (80..82)
        \cup (85..86) \cup (95..99)

\* useWeather starts with weatherCode 0, which every component classifies.
InitClassify ==
    /\ code = 0
    /\ weatherType = getWeatherType(0)
    /\ prevCode = 0
    /\ prevType = getWeatherType(0)

\* One call of getWeatherType, by a component rendering with weatherCode c.
Classify ==
    \E c \in Codes :
        /\ code' = c
        /\ weatherType' = getWeatherType(c)
        /\ prevCode' = code
        /\ prevType' = weatherType
        /\ UNCHANGED outsideClassify

----------------------------------------------------------------------------
(* Solar clock.  Elevations, intensities and light positions are in        *)
(* millionths.  Math.sin and Math.cos of the solar angle are tabulated at  *)
(* the 24 whole hours as IEEE doubles give them, cut to six decimals       *)
(* toward zero; a result that is not zero stays at least one millionth     *)
(* from it, so that its sign is the double's (Math.sin(Math.PI) > 0).      *)

\* Math.sin(angle), angle = ((hours - 6) / 24) * 2 * Math.PI.
SinAngle(hours) ==
    << -1000000, -965925, -866025, -707106, -499999, -258819,
       0, 258819, 499999, 707106, 866025, 965925,
       1000000, 965925, 866025, 707106, 499999, 258819,
       1, -258819, -500000, -707106, -866025, -965925 >>[hours + 1]

\* Math.cos(angle).
CosAngle(hours) ==
    << 1, 258819, 500000, 707106, 866025, 965925,
       1000000, 965925, 866025, 707106, 500000, 258819,
       1, -258819, -499999, -707106, -866025, -965925,
       -1000000, -965925, -866025, -707106, -500000, -258819 >>[hours + 1]

\* Math.sin(moonAngle), moonAngle = angle + Math.PI.
SinMoonAngle(hours) ==
    << 1000000, 965925, 866025, 707106, 499999, 258819,
       1, -258819, -499999, -707106, -866025, -965925,
       -1000000, -965925, -866025, -707106, -499999, -258819,
       -1, 258819, 500000, 707106, 866025, 965925 >>[hours + 1]

\* Math.cos(moonAngle).
CosMoonAngle(hours) ==
    << 1, -258819, -500000, -707106, -866025, -965925,
       -1000000, -965925, -866025, -707106, -500000, -258819,
       -1, 258819, 499999, 707106, 866025, 965925,
       1000000, 965925, 866025, 707106, 500000, 258819 >>[hours + 1]

\* The three-tier daytime tint.
dayColor(elevation) ==
    IF elevation < 200000 THEN "#ff9e22"
    ELSE IF elevation < 500000 THEN "#ffcf8a"
    ELSE "#ffffff"

\* Mutant: the horizon counts as night (elevation <= 0).
updateSunHorizonNight(hours) ==
    LET elevation == SinAngle(hours)
        lit == elevation > 0
    IN  [position |-> <<CosAngle(hours) * 100, SinAngle(hours) * 100, 0>>,
         intensity |-> IF lit THEN Min(Scale(elevation, 15, 10), 1000000) ELSE 0,
         color |-> IF lit THEN dayColor(elevation) ELSE "#1a1a2e",
         ambientIntensity |->
             IF lit THEN 200000 + Scale(elevation, 4, 10) ELSE 50000,
         isNight |-> elevation <= 0]

\* updateSun of hooks/useSunPosition.ts: the state it hands to setSunData.
\* The light stays at the sun's own position all day and night; the
\* daytime lighting is used when elevation > 0.
updateSun(hours) ==
    LET elevation == SinAngle(hours)
        lit == elevation > 0
    IN  [position |-> <<CosAngle(hours) * 100, SinAngle(hours) * 100, 0>>,
         intensity |-> IF lit THEN Min(Scale(elevation, 15, 10), 1000000) ELSE 0,
         color |-> IF lit THEN dayColor(elevation) ELSE "#1a1a2e",
         ambientIntensity |->
             IF lit THEN 200000 + Scale(elevation, 4, 10) ELSE 50000,
         isNight |-> elevation < 0]

\* Mutant: the hook with the moon takes the horizon for night.
updateSunMoonHorizon(hours) ==
    LET elevation == SinAngle(hours)
        isNight == elevation <= 0
    IN  [position |->
             IF ~isNight
             THEN <<CosAngle(hours) * 100, SinAngle(hours) * 100, 0>>
             ELSE <<CosMoonAngle(hours) * 100, SinMoonAngle(hours) * 100, 0>>,
         intensity |->
             IF ~isNight THEN Min(Scale(elevation, 15, 10), 1000000) ELSE 400000,
         color |-> IF ~isNight THEN dayColor(elevation) ELSE "#b9c6d2",
         ambientIntensity |->
             IF ~isNight THEN 200000 + Scale(elevation, 4, 10) ELSE 150000,
         isNight |-> isNight]

\* updateSun of the other useSunPosition: at night the light is the moon,
\* half a turn from the sun, and the lighting is moonlight; the daytime
\* lighting is used when !isNight.
updateSunMoon(hours) ==
    LET elevation == SinAngle(hours)
        isNight == elevation < 0
    IN  [position |->
             IF ~isNight
             THEN <<CosAngle(hours) * 100, SinAngle(hours) * 100, 0>>
             ELSE <<CosMoonAngle(hours) * 100, SinMoonAngle(hours) * 100, 0>>,
         intensity |->
             IF ~isNight THEN Min(Scale(elevation, 15, 10), 1000000) ELSE 400000,
         color |-> IF ~isNight THEN dayColor(elevation) ELSE "#b9c6d2",
         ambientIntensity |->
             IF ~isNight THEN 200000 + Scale(elevation, 4, 10) ELSE 150000,
         isNight |-> isNight]

\* The state the built hook publishes for `hours`.
publishedSun(hours) ==
    IF sunHook = "moon" THEN updateSunMoon(hours) ELSE updateSun(hours)

\* useState's initial value (the same in both hooks).
initialSunData ==
    [position |-> <<0, 100000000, 0>>,
     intensity |-> 1000000,
     color |-> "#ffffff",
     ambientIntensity |-> 500000,
     isNight |-> FALSE]

\* The hook has rendered once; its effect has not run yet.
InitSun ==
    /\ sunHook \in {"sun", "moon"}
    /\ clockHour = 0
    /\ sunData = initialSunData
    /\ sunHours = -1
    /\ sunPhase = "rendered"
    /\ sunInterval = FALSE

\* The effect: updateSun() at once, then setInterval(updateSun, 60000).
SunMount ==
    /\ sunPhase = "rendered"
    /\ sunData' = publishedSun(clockHour)
    /\ sunHours' = clockHour
    /\ sunInterval' = TRUE
    /\ sunPhase' = "mounted"
    /\ UNCHANGED <<sunHook, clockHour, outsideSun>>

\* The interval fires: updateSun() with the time of day it reads then.
SunTick ==
    /\ sunInterval
    /\ sunData' = publishedSun(clockHour)
    /\ sunHours' = clockHour
    /\ UNCHANGED <<sunHook, clockHour, sunPhase, sunInterval,
                   outsideSun>>

\* Mutant: the cleanup leaves the interval set.
SunUnmountLeak ==
    /\ sunPhase = "mounted"
    /\ sunPhase' = "unmounted"
    /\ UNCHANGED <<sunHook, clockHour, sunData, sunHours, sunInterval, outsideSun>>

\* The effect's cleanup: clearInterval(interval).
SunUnmount ==
    /\ sunPhase = "mounted"
    /\ sunInterval' = FALSE
    /\ sunPhase' = "unmounted"
    /\ UNCHANGED <<sunHook, clockHour, sunData, sunHours,
                   outsideSun>>

\* An hour passes on the wall clock.
ClockAdvance ==
    /\ clockHour' = (clockHour + 1) % 24
    /\ UNCHANGED <<sunHook, sunData, sunHours, sunPhase, sunInterval,
                   outsideSun>>

----------------------------------------------------------------------------
(* Particle populations.  Positions, speeds, angles and the frame clock    *)
(* are in thousandths.  A pool holds 0 to 2000 particles that one frame    *)
(* update treats alike, one after the other; the model keeps the first     *)
(* TrackedParticles of them.                                               *)

TrackedParticles == 2

\* Frame updates of a pool the model follows after it was seeded.
MaxFrames == 24

\* Math.random(), in thousandths: the two ends of [0, 1).
Rand == {0, 999}

\* state.clock.elapsedTime as a frame callback reads it (samples).
Times == {0, 1571}

Tracked(count) == Min(count, TrackedParticles)

\* A new THREE.Object3D, and an instance transform nothing was written to.
identityTransform ==
    [position |-> <<0, 0, 0>>, scale |-> <<1000, 1000, 1000>>,
     rotation |-> <<0, 0, 0>>]

\* Mutant: a thin pool is kept under an overcast sky.
weatherParticleCountCloudy(type) ==
    IF type = "rainy" THEN 2000
    ELSE IF type = "snowy" THEN 1500
    ELSE IF type = "cloudy" THEN 500
    ELSE 0

\* WeatherParticles: particleCount.
weatherParticleCount(type) ==
    IF type = "rainy" THEN 2000
    ELSE IF type = "snowy" THEN 1500
    ELSE 0

\* WeatherParticles: color, the base colour and the night factor.
weatherParticleColor(type, isNight) ==
    [base |-> IF type = "rainy" THEN "0x87CEEB" ELSE "0xFFFFFF",
     factor |-> IF isNight THEN 600 ELSE 1000]

\* Mutant: snow falls at a fifth of the speed.
seedWeatherParticleSlow(type, rx, ry, rz, rs, ro) ==
    [x |-> (rx - 500) * 40,
     y |-> ry * 30,
     z |-> (rz - 500) * 40,
     speed |-> IF type = "rainy" THEN 300 + Scale(rs, 2, 10)
               ELSE 10 + Scale(rs, 1, 100),
     offset |-> Mul(ro, 2 * MathPI)]

\* WeatherParticles: one particle of the particles memo, from its five
\* Math.random() draws.
seedWeatherParticle(type, rx, ry, rz, rs, ro) ==
    [x |-> (rx - 500) * 40,
     y |-> ry * 30,
     z |-> (rz - 500) * 40,
     speed |-> IF type = "rainy" THEN 300 + Scale(rs, 2, 10)
               ELSE 50 + Scale(rs, 5, 100),
     offset |-> Mul(ro, 2 * MathPI)]

\* The draws a particle is seeded from in the model: one value for its
\* place (x, y, z) and one for its motion (speed, offset or phase).
SeedDraws == { <<a, a, a, b, b>> : a \in Rand, b \in Rand }

\* Mutant: the bottom is tested before the fall, so a particle that
\* crosses it in this update is reset in the next one.
fallStepResetLate(p, rx, rz) ==
    IF p.y < -10000
    THEN [p EXCEPT !.y = 20000 - p.speed,
                   !.x = (rx - 500) * 40, !.z = (rz - 500) * 40]
    ELSE [p EXCEPT !.y = p.y - p.speed]

\* The frame update of one particle: fall, and reset when hitting bottom.
fallStep(p, rx, rz) ==
    IF p.y - p.speed < -10000
    THEN [p EXCEPT !.y = 20000,
                   !.x = (rx - 500) * 40, !.z = (rz - 500) * 40]
    ELSE [p EXCEPT !.y = p.y - p.speed]

\* What the frame update writes to dummy for particle p and commits with
\* setMatrixAt; rotation is set for snow only and else left as it was.
weatherTransform(p, type, time, rotation) ==
    LET swayX == IF type = "snowy"
                 THEN Scale(MathSin(time + p.offset), 5, 10) ELSE 0
        swayZ == IF type = "snowy"
                 THEN Scale(MathCos(time + Scale(p.offset, 7, 10)), 3, 10) ELSE 0
    IN  [position |-> <<p.x + swayX, p.y, p.z + swayZ>>,
         scale |-> IF type = "rainy" THEN <<10, 150, 10>> ELSE <<80, 80, 80>>,
         rotation |-> IF type = "snowy"
                      THEN <<time + p.offset, Scale(time, 5, 10) + p.offset, 0>>
                      ELSE rotation]

wpType == getWeatherType(wpCode)

\* The component has rendered with the default weatherCode 0: no pool, no
\* mesh.
InitPrecip ==
    /\ wpCode = 0
    /\ wpCount = 0
    /\ wpParticles = <<>>
    /\ wpColor = weatherParticleColor("sunny", FALSE)
    /\ wpDummy = [rotation |-> <<0, 0, 0>>]
    /\ wpMatrix = <<>>
    /\ wpFrames = 0
    /\ wpPrevType = "sunny"
    /\ wpAge = <<>>

\* Mutant: the particles memo does not depend on the category; a pool
\* that exists before and after the render is kept.
PrecipRendersKeep(c) ==
    LET type == getWeatherType(c)
        count == weatherParticleCount(type)
    IN  /\ wpCode' = c
        /\ wpPrevType' = wpType
        /\ wpCount' = count
        /\ wpColor' = weatherParticleColor(type, wpColor.factor # 1000)
        /\ IF count # wpCount /\ (count = 0 \/ wpCount = 0)
           THEN /\ \E draws \in [1..Tracked(count) -> SeedDraws] :
                       wpParticles' =
                           [i \in 1..Tracked(count) |->
                               seedWeatherParticle(type, draws[i][1], draws[i][2],
                                   draws[i][3], draws[i][4], draws[i][5])]
                /\ wpFrames' = 0
                /\ wpAge' = [i \in 1..Tracked(count) |-> 0]
           ELSE UNCHANGED <<wpParticles, wpFrames, wpAge>>
        /\ wpMatrix' = IF count # wpCount
                       THEN [i \in 1..Tracked(count) |-> identityTransform]
                       ELSE wpMatrix
        /\ UNCHANGED wpDummy

\* The draws of a pool of n particles: each particle its own; and, for
\* the long run, each particle its own place but one draw of the motion
\* for the whole pool.
Seedings(n) == [1..n -> SeedDraws]

SeedingsOneSpeed(n) ==
    { draws \in Seedings(n) : \A i \in 1..n : draws[i][4] = draws[1][4] }

\* WeatherParticles renders with weatherCode c, the Math.random() values
\* of the particles memo taken from seedings(count): the memos whose
\* dependencies changed are recomputed, and a changed particleCount gives
\* a new instanced mesh (none for 0).
PrecipRendersWith(c, seedings(_)) ==
    LET type == getWeatherType(c)
        count == weatherParticleCount(type)
    IN  /\ wpCode' = c
        /\ wpPrevType' = wpType
        /\ wpCount' = count
        /\ wpColor' = weatherParticleColor(type, wpColor.factor # 1000)
        /\ IF count # wpCount \/ type # wpType
           THEN /\ \E draws \in seedings(Tracked(count)) :
                       wpParticles' =
                           [i \in 1..Tracked(count) |->
                               seedWeatherParticle(type, draws[i][1], draws[i][2],
                                   draws[i][3], draws[i][4], draws[i][5])]
                /\ wpFrames' = 0
                /\ wpAge' = [i \in 1..Tracked(count) |-> 0]
           ELSE UNCHANGED <<wpParticles, wpFrames, wpAge>>
        /\ wpMatrix' = IF count # wpCount
                       THEN [i \in 1..Tracked(count) |-> identityTransform]
                       ELSE wpMatrix
        /\ UNCHANGED wpDummy

PrecipRenders(c) == PrecipRendersWith(c, Seedings)

\* The weather codes the scene is rendered with: clear, overcast, light
\* and moderate rain, light snow.
SceneCodes == {0, 3, 61, 63, 71}

PrecipRender ==
    \E c \in SceneCodes :
        /\ PrecipRenders(c)
        /\ UNCHANGED outsidePrecip

\* WeatherParticles renders with the other isNight: the color memo alone
\* is recomputed.
PrecipRendersNight ==
    /\ wpColor' = weatherParticleColor(wpType, wpColor.factor = 1000)
    /\ UNCHANGED <<wpCode, wpCount, wpParticles, wpDummy, wpMatrix, wpFrames,
                   wpPrevType, wpAge>>

PrecipRenderNight ==
    /\ PrecipRendersNight
    /\ UNCHANGED outsidePrecip

\* The particles a frame update can leave: each one after its fall step,
\* for every x and z a reset can draw.
fallOutcomes(ps, draws) ==
    LET outcomes(i) == { fallStep(ps[i], rx, rz) : rx \in draws, rz \in draws }
    IN  { f \in [1..Len(ps) -> UNION { outcomes(i) : i \in 1..Len(ps) }] :
            \A i \in 1..Len(ps) : f[i] \in outcomes(i) }

\* WeatherParticles: the colour effect, which returns without a mesh or
\* with particleCount 0 and else sets every instance's colour to color.
instanceColors == [i \in 1..Len(wpMatrix) |-> wpColor]

\* Mutant: the callback does not return early and counts an update of the
\* empty pool.
weatherParticlesFrameUnguarded(time) ==
    /\ \E moved \in fallOutcomes(wpParticles, Rand) :
           LET committed == [i \in 1..Len(moved) |->
                                weatherTransform(moved[i], wpType, time,
                                                 wpDummy.rotation)]
           IN  /\ wpParticles' = moved
               /\ wpMatrix' = committed
               /\ wpDummy' = IF Len(committed) = 0 THEN wpDummy
                             ELSE [rotation |-> committed[Len(committed)].rotation]
               /\ wpAge' = [i \in 1..Len(moved) |->
                                IF moved[i].y > wpParticles[i].y THEN 0
                                ELSE wpAge[i] + 1]
    /\ wpFrames' = wpFrames + 1
    /\ UNCHANGED <<wpCode, wpCount, wpColor, wpPrevType>>

\* The loop of the useFrame callback of WeatherParticles, with the
\* Math.random() values of a reset drawn from `draws`: every particle
\* falls, is reset at the bottom, and its transform is committed.
\* dummy's position and scale are written for every particle before they
\* are read; its rotation is written for snow only.
weatherParticlesUpdate(time, draws) ==
    \E moved \in fallOutcomes(wpParticles, draws) :
        LET committed == [i \in 1..Len(moved) |->
                             weatherTransform(moved[i], wpType, time,
                                              wpDummy.rotation)]
        IN  /\ wpParticles' = moved
            /\ wpMatrix' = committed
            /\ wpDummy' = [rotation |-> committed[Len(committed)].rotation]
            /\ wpAge' = [i \in 1..Len(moved) |->
                             IF moved[i].y > wpParticles[i].y THEN 0
                             ELSE wpAge[i] + 1]

\* The useFrame callback of WeatherParticles: nothing without particles.
weatherParticlesFrame(time) ==
    IF wpCount = 0
    THEN UNCHANGED precipVars
    ELSE /\ weatherParticlesUpdate(time, Rand)
         /\ wpFrames' = wpFrames + 1
         /\ UNCHANGED <<wpCode, wpCount, wpColor, wpPrevType>>

PrecipFrame ==
    /\ wpFrames < MaxFrames
    /\ \E time \in Times : weatherParticlesFrame(time)
    /\ UNCHANGED outsidePrecip

\* The callback over a long run: the frames go on without end, at the
\* clock's start and with one value for the draws of a reset; of the
\* count of frames only "MaxFrames or more" is kept.
\* A render of the long run: rain or snow sets in from a sky without
\* precipitation and gives way to one.
FallRender ==
    \E c \in SceneCodes :
        /\ wpCount = 0 \/ weatherParticleCount(getWeatherType(c)) = 0
        /\ PrecipRendersWith(c, SeedingsOneSpeed)
        /\ UNCHANGED outsidePrecip

FallFrame ==
    /\ wpCount # 0
    /\ weatherParticlesUpdate(0, {0})
    /\ wpFrames' = Min(wpFrames + 1, MaxFrames)
    /\ UNCHANGED <<wpCode, wpCount, wpColor, wpPrevType>>
    /\ UNCHANGED outsidePrecip

----------------------------------------------------------------------------
(* The ambient population, and the scene that renders both populations     *)
(* with one weatherCode and one isNight and runs their frame callbacks on  *)
(* one clock.                                                              *)

\* Frame updates of one precipitation pool the scene is followed for.
MaxSceneFrames == 2

\* Mutant: the ambient pool has one size under every category.
ambientParticleCountFlat(type) == 100

\* AmbientParticles: particleCount.
ambientParticleCount(type) == IF type = "sunny" THEN 300 ELSE 100

\* AmbientParticles: color.
ambientParticleColor(isNight) ==
    [base |-> IF isNight THEN "0x5f5f5f" ELSE "0xFFD700"]

\* AmbientParticles: one particle of the particles memo, from its five
\* Math.random() draws.
seedAmbientParticle(rx, ry, rz, rs, ro) ==
    [x |-> (rx - 500) * 30,
     y |-> (ry - 500) * 20,
     z |-> (rz - 500) * 30,
     speed |-> 10 + Scale(rs, 2, 100),
     phase |-> Mul(ro, 2 * MathPI)]

\* The draws an ambient particle is seeded from in the model: one value
\* for all five.
AmbientDraws == { <<a, a, a, a, a>> : a \in Rand }

\* Mutant: the floating carries a particle two units sideways.
ambientTransformWide(p, time) ==
    LET y == p.y + Scale(MathSin(Mul(time, p.speed) + p.phase), 5, 10)
        x == p.x + Scale(MathCos(Scale(Mul(time, p.speed), 7, 10) + p.phase), 2, 1)
        scalar == 50 + Scale(MathSin(time + p.phase), 2, 100)
    IN  [position |-> <<x, y, p.z>>,
         scale |-> <<scalar, scalar, scalar>>,
         rotation |-> <<0, 0, 0>>]

\* What the frame update commits for ambient particle p: gentle floating
\* around its seeded place.
ambientTransform(p, time) ==
    LET y == p.y + Scale(MathSin(Mul(time, p.speed) + p.phase), 5, 10)
        x == p.x + Scale(MathCos(Scale(Mul(time, p.speed), 7, 10) + p.phase), 2, 10)
        scalar == 50 + Scale(MathSin(time + p.phase), 2, 100)
    IN  [position |-> <<x, y, p.z>>,
         scale |-> <<scalar, scalar, scalar>>,
         rotation |-> <<0, 0, 0>>]

apType == getWeatherType(apCode)

\* Before the component's first render: no pool, no mesh.
InitAmbient ==
    /\ apCode = 0
    /\ apCount = 0
    /\ apParticles = <<>>
    /\ apColor = ambientParticleColor(FALSE)
    /\ apMatrix = <<>>

\* AmbientParticles renders with weatherCode c: the pool is computed anew
\* when particleCount changed, and a changed particleCount gives a new
\* instanced mesh.
AmbientRenders(c) ==
    LET count == ambientParticleCount(getWeatherType(c))
    IN  /\ apCode' = c
        /\ apCount' = count
        /\ IF count # apCount
           THEN /\ \E draws \in [1..Tracked(count) -> AmbientDraws] :
                       apParticles' =
                           [i \in 1..Tracked(count) |->
                               seedAmbientParticle(draws[i][1], draws[i][2],
                                   draws[i][3], draws[i][4], draws[i][5])]
                /\ apMatrix' = [i \in 1..Tracked(count) |-> identityTransform]
           ELSE UNCHANGED <<apParticles, apMatrix>>
        /\ UNCHANGED apColor

\* AmbientParticles renders with the other isNight: the color memo alone
\* is recomputed.
AmbientRendersNight ==
    /\ apColor' = ambientParticleColor(apColor.base = "0xFFD700")
    /\ UNCHANGED <<apCode, apCount, apParticles, apMatrix>>

\* Mutant: the update retires the last particle of the pool.
ambientParticlesFrameRetire(time) ==
    /\ apParticles' = SubSeq(apParticles, 1, Len(apParticles) - 1)
    /\ apMatrix' = [i \in 1..Len(apMatrix) - 1 |->
                       ambientTransform(apParticles[i], time)]
    /\ UNCHANGED <<apCode, apCount, apColor>>

\* The useFrame callback of AmbientParticles: nothing without a mesh; else
\* every particle's transform is committed.  The particles themselves are
\* not written.
ambientParticlesFrame(time) ==
    /\ apMatrix' = [i \in 1..Len(apMatrix) |-> ambientTransform(apParticles[i], time)]
    /\ UNCHANGED <<apCode, apCount, apParticles, apColor>>

\* SceneContent renders with a weatherCode: both populations get it.
SceneRender ==
    /\ \E c \in SceneCodes :
           /\ PrecipRenders(c)
           /\ AmbientRenders(c)
    /\ UNCHANGED outsideScene

\* SceneContent renders with a changed sun.isNight.
SceneRenderNight ==
    /\ apCount # 0
    /\ PrecipRendersNight
    /\ AmbientRendersNight
    /\ UNCHANGED outsideScene

\* Mutant: the frame recomputes the solar state for the hour after the
\* one the wall clock shows.
SceneFrameSolar ==
    /\ apCount # 0
    /\ wpFrames < MaxSceneFrames
    /\ \E time \in Times :
           /\ weatherParticlesFrame(time)
           /\ ambientParticlesFrame(time)
    /\ sunData' = publishedSun((clockHour + 1) % 24)
    /\ UNCHANGED <<sunHook, clockHour, sunHours, sunPhase, sunInterval>>
    /\ UNCHANGED <<heightVars, classifyVars, cloudVars, weatherVars, paletteVars,
                   cameraVars, mountainVars, overlayVars>>

\* A frame: both callbacks run with the same clock.
SceneFrame ==
    /\ apCount # 0
    /\ wpFrames < MaxSceneFrames
    /\ \E time \in Times :
           /\ weatherParticlesFrame(time)
           /\ ambientParticlesFrame(time)
    /\ UNCHANGED outsideScene

----------------------------------------------------------------------------
(* Clouds.  VolumetricClouds drifts one group; CloudParticles, the cloud   *)
(* layer of the particle-mountain scene, places every particle from the    *)
(* frame clock.  Times are in thousandths of a second.                     *)

\* Frame updates of the clouds the model follows.
MaxCloudFrames == 6

\* The delta of a frame: a 60 Hz frame, and the first frame after the tab
\* was hidden for 100 s.
Deltas == {16, 100000}

\* VolumetricClouds: config.driftSpeed.
driftSpeed(type) ==
    IF type = "rainy" THEN 1000
    ELSE IF type = "cloudy" THEN 500
    ELSE IF type = "snowy" THEN 300
    ELSE 200

\* VolumetricClouds: the frame update of the group's x.
groupDrift(x, type, delta) ==
    LET drifted == x + Mul(driftSpeed(type), delta)
    IN  IF drifted > 30000 THEN -30000 ELSE drifted

\* The draws a cloud particle is seeded from in the model: for the angle
\* (0 or half a turn) and for the radius and height.
CloudDraws == { <<a, r>> : a \in {0, 500}, r \in Rand }

\* CloudParticles: one particle's entry of initialPositions.
seedCloudParticle(ra, rr, ry) ==
    LET angle == Mul(ra, 2 * MathPI)
        radius == 5000 + rr * 15
    IN  <<Mul(MathCos(angle), radius), 8000 + ry * 6, Mul(MathSin(angle), radius)>>

\* CloudParticles: "Wrap around", one subtraction.
wrapAround(x) == IF x > 25000 THEN x - 50000 ELSE x

\* CloudParticles: the position the frame update commits for particle i
\* (the loop's index, from 0) at `time`.
cloudPosition(initial, i, time) ==
    LET driftX == Scale(MathSin(Scale(time, 1, 10) + i * 10), 5, 10)
        driftZ == Scale(MathCos(Scale(time, 8, 100) + i * 10), 3, 10)
        bob == Scale(MathSin(Scale(time, 2, 10) + i * 100), 2, 10)
    IN  <<wrapAround(initial[1] + driftX + Scale(time, 2, 10)),
          initial[2] + bob,
          initial[3] + driftZ>>

\* VolumetricClouds has rendered with the default weatherCode 0 and its
\* group is at config.position; CloudParticles is not mounted.
InitClouds ==
    /\ vcCode = 0
    /\ groupX = 0
    /\ cpMounted = FALSE
    /\ initialPositions = <<>>
    /\ cpMatrix = <<>>
    /\ elapsedTime = 0
    /\ frameDelta = 0
    /\ cloudFrames = 0

\* VolumetricClouds renders with weatherCode c.  The group's position prop
\* is a new Vector3 of config.position on every render: the renderer
\* either leaves the group where it drifted to or puts it back at x = 0.
VolumetricCloudsRender ==
    /\ \E c \in SceneCodes : vcCode' = c
    /\ groupX' \in {groupX, 0}
    /\ UNCHANGED <<cpMounted, initialPositions, cpMatrix, elapsedTime,
                   frameDelta, cloudFrames>>
    /\ UNCHANGED outsideClouds

\* CloudParticles mounts: initialPositions is computed, the instanced mesh
\* is created.
CloudParticlesMount ==
    /\ ~cpMounted
    /\ cpMounted' = TRUE
    /\ \E draws \in [1..TrackedParticles -> CloudDraws] :
           initialPositions' =
               [i \in 1..TrackedParticles |->
                   seedCloudParticle(draws[i][1], draws[i][2], draws[i][2])]
    /\ cpMatrix' = [i \in 1..TrackedParticles |-> <<0, 0, 0>>]
    /\ UNCHANGED <<vcCode, groupX, elapsedTime, frameDelta, cloudFrames>>
    /\ UNCHANGED outsideClouds

\* A frame: the clock advances by delta, the group drifts and wraps, and
\* CloudParticles, when its mesh exists, commits every particle's position.
CloudFrame ==
    /\ cloudFrames < MaxCloudFrames
    /\ \E delta \in Deltas :
        /\ elapsedTime' = elapsedTime + delta
        /\ frameDelta' = delta
        /\ groupX' = groupDrift(groupX, getWeatherType(vcCode), delta)
        /\ cpMatrix' =
               IF cpMounted
               THEN [i \in 1..Len(initialPositions) |->
                        cloudPosition(initialPositions[i], i - 1, elapsedTime + delta)]
               ELSE cpMatrix
    /\ cloudFrames' = cloudFrames + 1
    /\ UNCHANGED <<vcCode, cpMounted, initialPositions>>
    /\ UNCHANGED outsideClouds

----------------------------------------------------------------------------
(* The weather hook, and HeroSection, which puts ParticleScene in its      *)
(* output when the hook's state is not loading.                            *)

\* Calls of fetchWeather in flight at once in the model.
MaxFetches == 2

\* Frames of the mounted scene the model counts.
MaxHeroFrames == 3

\* useState's initial value: the fields the scene depends on.
initialWeatherData == [weatherCode |-> 0, loading |-> TRUE, error |-> "null"]

\* HeroSection's output for weather state d: whether ParticleScene is in
\* it, and with which weatherCode.
heroScene(d) ==
    [mounted |-> ~d.loading,
     weatherCode |-> IF d.loading THEN -1 ELSE d.weatherCode]

\* App has rendered once, HeroSection with it; no effect has run yet.
InitWeather ==
    /\ data = initialWeatherData
    /\ fetches = 0
    /\ settled = "none"
    /\ writer = "none"
    /\ weatherInterval = FALSE
    /\ weatherPhase = "rendered"
    /\ sceneMounted = heroScene(initialWeatherData).mounted
    /\ sceneCode = heroScene(initialWeatherData).weatherCode
    /\ sceneFrames = 0
    /\ frameCategory = "none"

\* A fetchWeather starts.  writer ranks the fetch that wrote data last:
\* "latest" if no fetch was started after it, "older" if the fetch started
\* last is still in flight, "stale" if the fetch started last settled
\* before it; a new fetch makes every earlier one older.
fetchStarts ==
    /\ fetches' = fetches + 1
    /\ writer' = IF writer = "none" THEN "none" ELSE "older"

\* The effect: fetchWeather() at once, then setInterval(fetchWeather, 30 min).
WeatherMount ==
    /\ weatherPhase = "rendered"
    /\ weatherPhase' = "mounted"
    /\ fetchStarts
    /\ weatherInterval' = TRUE
    /\ UNCHANGED <<data, settled, sceneMounted, sceneCode, sceneFrames,
                   frameCategory>>
    /\ UNCHANGED outsideWeather

\* The interval fires: another fetchWeather() starts.
WeatherTick ==
    /\ weatherInterval
    /\ fetches < MaxFetches
    /\ fetchStarts
    /\ UNCHANGED <<data, settled, weatherInterval, weatherPhase, sceneMounted,
                   sceneCode, sceneFrames, frameCategory>>
    /\ UNCHANGED outsideWeather

\* Mutant: a state update of the unmounted App is carried out.
weatherSetDataAlways(d) ==
    /\ data' = d
    /\ sceneMounted' = heroScene(d).mounted
    /\ sceneCode' = heroScene(d).weatherCode

\* setData(d) and the render that follows it; a state update of the
\* unmounted App is dropped.
weatherSetData(d) ==
    IF weatherPhase = "unmounted"
    THEN UNCHANGED <<data, sceneMounted, sceneCode>>
    ELSE /\ data' = d
         /\ sceneMounted' = heroScene(d).mounted
         /\ sceneCode' = heroScene(d).weatherCode

\* result.current.weather_code of a payload that lacks the field: the
\* value undefined, which no test of getWeatherType matches.
undefinedCode == -2

\* Mutant: the catch block shows the loading state again.
catchDataLoading(prev) == [prev EXCEPT !.loading = TRUE, !.error = "message"]

\* The state the catch block's setData computes from the previous one.
catchData(prev) == [prev EXCEPT !.loading = FALSE, !.error = "message"]

\* A fetchWeather in flight settles and calls setData(d): the one started
\* last (newest) or, of several in flight, an earlier one.  Nothing orders
\* the responses, and each one is written as it arrives.
fetchSettles(newest, outcome, d) ==
    /\ fetches > 0
    /\ newest \/ fetches > 1
    /\ fetches' = fetches - 1
    /\ settled' = outcome
    /\ weatherSetData(d)
    /\ writer' = IF weatherPhase = "unmounted" THEN writer
                 ELSE IF writer \in {"latest", "stale"} THEN "stale"
                 ELSE IF newest THEN "latest"
                 ELSE "older"
    /\ UNCHANGED <<weatherInterval, weatherPhase, sceneFrames, frameCategory>>

\* A fetchWeather settles with a well-formed response: the try block's
\* setData.
FetchResolve ==
    /\ \E newest \in BOOLEAN, c \in SceneCodes :
           fetchSettles(newest, "response",
                        [weatherCode |-> c, loading |-> FALSE, error |-> "null"])
    /\ UNCHANGED outsideWeather

\* A fetchWeather settles with an OK response whose payload has `current`
\* and the `hourly` arrays but no current.weather_code: nothing throws, and
\* the try block's setData stores what it read.
FetchResolvePartial ==
    /\ \E newest \in BOOLEAN :
           fetchSettles(newest, "partial",
                        [weatherCode |-> undefinedCode, loading |-> FALSE,
                         error |-> "null"])
    /\ UNCHANGED outsideWeather

\* Mutant: the catch block calls fetchWeather again at once.
FetchFailRetry ==
    /\ fetches > 0
    /\ fetches' = fetches
    /\ settled' = "thrown"
    /\ weatherSetData(catchData(data))
    /\ UNCHANGED <<writer, weatherInterval, weatherPhase, sceneFrames,
                   frameCategory>>
    /\ UNCHANGED outsideWeather

\* A fetchWeather fails (network error, !response.ok, a payload that is
\* not JSON or lacks `current` or `hourly`): the catch block's setData
\* keeps the previous fields.
FetchFail ==
    /\ \E newest \in BOOLEAN : fetchSettles(newest, "thrown", catchData(data))
    /\ UNCHANGED outsideWeather

\* App unmounts: the effect's cleanup clears the interval, the scene goes
\* with HeroSection.  Fetches in flight are not cancelled.
WeatherUnmount ==
    /\ weatherPhase = "mounted"
    /\ weatherPhase' = "unmounted"
    /\ weatherInterval' = FALSE
    /\ sceneMounted' = FALSE
    /\ sceneCode' = -1
    /\ UNCHANGED <<data, fetches, writer, settled, sceneFrames, frameCategory>>
    /\ UNCHANGED outsideWeather

\* The mounted scene draws a frame with the category of its weatherCode.
HeroFrame ==
    /\ sceneMounted
    /\ sceneFrames < MaxHeroFrames
    /\ sceneFrames' = sceneFrames + 1
    /\ frameCategory' = getWeatherType(sceneCode)
    /\ UNCHANGED <<data, fetches, writer, settled, weatherInterval,
                   weatherPhase, sceneMounted, sceneCode>>
    /\ UNCHANGED outsideWeather

----------------------------------------------------------------------------
(* HeroSection with the scene it mounts: a settled fetchWeather reaches    *)
(* the populations of ParticleScene through the weatherCode prop.          *)

\* Frames of the scene the model follows together with its populations.
MaxHeroSceneFrames == 2

\* The weather codes a response carries: clear, light and moderate rain,
\* light snow.
HeroCodes == {0, 61, 63, 71}

outsideHero == <<heightVars, classifyVars, sunVars, cloudVars, paletteVars,
                 cameraVars, mountainVars, overlayVars>>

\* ParticleScene leaves HeroSection's output: its populations go with it,
\* and a later mount starts from new components.
sceneTeardown ==
    /\ wpCode' = 0
    /\ wpCount' = 0
    /\ wpParticles' = <<>>
    /\ wpColor' = weatherParticleColor("sunny", FALSE)
    /\ wpDummy' = [rotation |-> <<0, 0, 0>>]
    /\ wpMatrix' = <<>>
    /\ wpFrames' = 0
    /\ wpPrevType' = "sunny"
    /\ wpAge' = <<>>
    /\ apCode' = 0
    /\ apCount' = 0
    /\ apParticles' = <<>>
    /\ apColor' = ambientParticleColor(FALSE)
    /\ apMatrix' = <<>>

\* HeroSection renders after setData(d): ParticleScene has no key, so
\* where it is in the output before and after, the same components render
\* with the new weatherCode; where it is not, it is unmounted.
heroRenders(d) ==
    IF weatherPhase = "unmounted"
    THEN UNCHANGED <<precipVars, ambientVars>>
    ELSE IF heroScene(d).mounted
         THEN /\ PrecipRendersWith(heroScene(d).weatherCode, SeedingsOneSpeed)
              /\ AmbientRenders(heroScene(d).weatherCode)
         ELSE sceneTeardown

\* Mutant: the catch block's state shows the loading placeholder again.
HeroFailLoading ==
    /\ \E newest \in BOOLEAN :
           /\ fetchSettles(newest, "thrown", catchDataLoading(data))
           /\ heroRenders(catchDataLoading(data))
    /\ UNCHANGED outsideHero

\* A fetchWeather fails and the section renders.
HeroFail ==
    /\ \E newest \in BOOLEAN :
           /\ fetchSettles(newest, "thrown", catchData(data))
           /\ heroRenders(catchData(data))
    /\ UNCHANGED outsideHero

\* A fetchWeather resolves and the section renders.
HeroResolve ==
    /\ \E newest \in BOOLEAN, c \in HeroCodes :
           LET d == [weatherCode |-> c, loading |-> FALSE, error |-> "null"]
           IN  /\ fetchSettles(newest, "response", d)
               /\ heroRenders(d)
    /\ UNCHANGED outsideHero

\* App unmounts, the scene's populations with it.
HeroUnmount ==
    /\ weatherPhase = "mounted"
    /\ weatherPhase' = "unmounted"
    /\ weatherInterval' = FALSE
    /\ sceneMounted' = FALSE
    /\ sceneCode' = -1
    /\ sceneTeardown
    /\ UNCHANGED <<data, fetches, writer, settled, sceneFrames, frameCategory>>
    /\ UNCHANGED outsideHero

\* The mounted scene draws a frame: the callbacks of its populations run.
HeroSceneFrame ==
    /\ sceneMounted
    /\ sceneFrames < MaxHeroSceneFrames
    /\ sceneFrames' = sceneFrames + 1
    /\ frameCategory' = getWeatherType(sceneCode)
    /\ \E time \in Times :
           /\ weatherParticlesFrame(time)
           /\ ambientParticlesFrame(time)
    /\ UNCHANGED <<data, fetches, writer, settled, weatherInterval,
                   weatherPhase, sceneMounted, sceneCode>>
    /\ UNCHANGED outsideHero

----------------------------------------------------------------------------
(* SceneContent: the solar hook it owns and the children it hands         *)
(* weatherCode and sun.isNight to.                                         *)

\* Mutant: the clouds keep their daytime colour and opacity at night.
cloudConfigDay(type, isNight) ==
    [color |-> [base |-> IF type = "rainy" THEN "#5a6473"
                         ELSE IF type = "cloudy" THEN "#c4c4c4"
                         ELSE IF type = "snowy" THEN "#e8ebed"
                         ELSE "#fff8db",
                factor |-> 1000],
     opacity |-> IF type = "rainy" THEN 800
                 ELSE IF type \in {"cloudy", "snowy"} THEN 700
                 ELSE 500]

\* VolumetricClouds: the colour and opacity of config; at night the colour
\* is multiplied by 0.15 and the opacity by 0.6.
cloudConfig(type, isNight) ==
    LET base == IF type = "rainy" THEN "#5a6473"
                ELSE IF type = "cloudy" THEN "#c4c4c4"
                ELSE IF type = "snowy" THEN "#e8ebed"
                ELSE "#fff8db"
        opacity == IF type = "rainy" THEN 800
                   ELSE IF type \in {"cloudy", "snowy"} THEN 700
                   ELSE 500
    IN  [color |-> [base |-> base, factor |-> IF isNight THEN 150 ELSE 1000],
         opacity |-> IF isNight THEN Mul(opacity, 600) ELSE opacity]

\* MountainMeshFlat: the colour of a vertex of height h, and the
\* material's emissive colour.
mountainColor(h, isNight) ==
    [color |-> IF h > 6000
               THEN (IF isNight THEN <<810, 850, 880>> ELSE <<1000, 1000, 1000>>)
               ELSE (IF isNight THEN <<170, 200, 210>> ELSE <<290, 300, 410>>),
     emissive |-> IF isNight THEN "0x050510" ELSE "0x000000"]

\* The hours of the day the wall clock can show when updateSun reads it.
Hours == 0..23

\* The children have rendered with the initial solar state, by day.
InitPalette ==
    /\ vcNight = FALSE
    /\ meshNight = FALSE

\* SceneContent's first render, with weatherCode c and the initial solar
\* state: every child renders by day.
ContentRender ==
    /\ sunPhase = "rendered"
    /\ apCount = 0
    /\ \E c \in SceneCodes :
           /\ PrecipRenders(c)
           /\ AmbientRenders(c)
           /\ vcCode' = c
    /\ UNCHANGED <<groupX, cpMounted, initialPositions, cpMatrix, elapsedTime,
                   frameDelta, cloudFrames>>
    /\ UNCHANGED <<heightVars, classifyVars, sunVars, weatherVars, paletteVars,
                   cameraVars, mountainVars, overlayVars>>

\* updateSun() reading hour h, and the render of SceneContent that
\* setSunData brings: the children whose isNight changed recompute the
\* memos that depend on it.
contentSun(h) ==
    LET night == publishedSun(h).isNight
    IN  /\ clockHour' = h
        /\ sunData' = publishedSun(h)
        /\ sunHours' = h
        /\ vcNight' = night
        /\ meshNight' = night
        /\ IF night # sunData.isNight
           THEN PrecipRendersNight /\ AmbientRendersNight
           ELSE UNCHANGED <<precipVars, ambientVars>>

\* The hook's effect after the first render.
ContentMount ==
    /\ sunPhase = "rendered"
    /\ apCount # 0
    /\ \E h \in Hours : contentSun(h)
    /\ sunInterval' = TRUE
    /\ sunPhase' = "mounted"
    /\ UNCHANGED <<sunHook, heightVars, classifyVars, cloudVars, weatherVars,
                   cameraVars, mountainVars, overlayVars>>

\* The hook's interval fires.
ContentTick ==
    /\ sunInterval
    /\ \E h \in Hours : contentSun(h)
    /\ UNCHANGED <<sunHook, sunPhase, sunInterval, heightVars, classifyVars,
                   cloudVars, weatherVars, cameraVars, mountainVars, overlayVars>>

----------------------------------------------------------------------------
(* CameraController.  One unit of length is CameraUnit steps, so that     *)
(* two hundredths of a remaining distance is a whole number of steps in    *)
(* every frame the model draws.                                            *)

MaxCameraFrames == 3

CameraUnit == 50 ^ MaxCameraFrames

\* The browser window the pointer moves in.
window == [innerWidth |-> 4, innerHeight |-> 2]

\* The mousemove events: the pointer at the left edge, a quarter in and at
\* the right edge; at the top, the middle and the bottom.
MouseEvents == [clientX : {0, 1, 4}, clientY : {0, 1, 2}]

\* The Canvas camera at [0, 2, 25], aimed at the origin; the pointer has
\* not moved.
InitCamera ==
    /\ cameraPosition = <<0, 2 * CameraUnit, 25 * CameraUnit>>
    /\ cameraLookAt = <<0, 0, 0>>
    /\ mouseRef = <<0, 0>>
    /\ cameraFrames = 0

\* handleMouseMove: the pointer, from -1 to 1 across the window.
handleMouseMove(e) ==
    <<((e.clientX * CameraUnit) \div window.innerWidth - CameraUnit \div 2) * 2,
      ((e.clientY * CameraUnit) \div window.innerHeight - CameraUnit \div 2) * 2>>

CameraMouseMove ==
    /\ \E e \in MouseEvents : mouseRef' = handleMouseMove(e)
    /\ UNCHANGED <<cameraPosition, cameraLookAt, cameraFrames>>
    /\ UNCHANGED outsideCamera

\* Mutant: the camera moves twice the remaining distance.
cameraFrameOvershoot ==
    LET targetX == mouseRef[1] * 2
        targetY == mouseRef[2] * 1 + 2 * CameraUnit
    IN  /\ cameraPosition' =
               <<cameraPosition[1] + (targetX - cameraPosition[1]) * 2,
                 cameraPosition[2] + (targetY - cameraPosition[2]) * 2,
                 cameraPosition[3]>>
        /\ cameraLookAt' = <<0, 3 * CameraUnit, 0>>

\* The useFrame callback of CameraController.
cameraFrame ==
    LET targetX == mouseRef[1] * 2
        targetY == mouseRef[2] * 1 + 2 * CameraUnit
    IN  /\ cameraPosition' =
               <<cameraPosition[1] + ((targetX - cameraPosition[1]) * 2) \div 100,
                 cameraPosition[2] + ((targetY - cameraPosition[2]) * 2) \div 100,
                 cameraPosition[3]>>
        /\ cameraLookAt' = <<0, 3 * CameraUnit, 0>>

CameraFrame ==
    /\ cameraFrames < MaxCameraFrames
    /\ cameraFrame
    /\ cameraFrames' = cameraFrames + 1
    /\ UNCHANGED mouseRef
    /\ UNCHANGED outsideCamera

----------------------------------------------------------------------------
(* MountainParticles of the particle-mountain scene.                       *)

\* Frames of the mountain the model counts.
MaxMountainFrames == 2

mountainParticleCount == 8000

\* Math.random() for the angle, and for the radius and the height.
AngleDraws == {0, 125, 500, 875}

SpanDraws == {0, 500, 999}

\* state.clock.elapsedTime as the mountain's frame callback reads it.
MountainTimes == {0, 7854, 31416}

\* One turn of the loop of the useMemo: a point of the disk of radius 18,
\* at a random fraction of the mountain's height over it, lowered by 5.
seedMountainParticle(ra, rr, rh, rs) ==
    LET angle == Scale(ra, 2 * MathPI, 1000)
        radius == rr * 18
        x == Mul(MathCos(angle), radius)
        z == Mul(MathSin(angle), radius)
        height == getMountainHeightParticles(x, z)
        y == Mul(rh, height)
    IN  [position |-> <<x, y - 5000, z>>,
         scale |-> 80 + Scale(rs, 6, 100)]

MountainDraws ==
    {seedMountainParticle(ra, rr, rh, rs) :
         ra \in AngleDraws, rr \in SpanDraws, rh \in SpanDraws, rs \in Rand}

\* Mutant: the breathing also lifts the particle.
mountainTransformLift(pos, scale, time) ==
    [position |->
         <<pos[1] + Scale(MathSin(Scale(time, 2, 10) + Scale(pos[2], 1, 10)), 2, 100),
           pos[2] + Scale(MathSin(Scale(time, 2, 10) + Scale(pos[2], 1, 10)), 2, 100),
           pos[3] + Scale(MathCos(Scale(time, 15, 100) + Scale(pos[1], 1, 10)), 2, 100)>>,
     scale |-> <<scale, scale, scale>>,
     rotation |-> <<0, 0, 0>>]

\* The body of the loop of the useFrame callback: what dummy holds when
\* its matrix is written to the instance.
mountainTransform(pos, scale, time) ==
    [position |->
         <<pos[1] + Scale(MathSin(Scale(time, 2, 10) + Scale(pos[2], 1, 10)), 2, 100),
           pos[2],
           pos[3] + Scale(MathCos(Scale(time, 15, 100) + Scale(pos[1], 1, 10)), 2, 100)>>,
     scale |-> <<scale, scale, scale>>,
     rotation |-> <<0, 0, 0>>]

\* The component has not rendered yet.
InitMountain ==
    /\ mpPositions = <<>>
    /\ mpScales = <<>>
    /\ mpMatrix = <<>>
    /\ mpFrames = 0

\* The first render: the useMemo seeds the particles, the instanced mesh
\* is created.
MountainMount ==
    /\ mpPositions = <<>>
    /\ \E seeds \in [1..Tracked(mountainParticleCount) -> MountainDraws] :
           /\ mpPositions' = [i \in 1..Len(seeds) |-> seeds[i].position]
           /\ mpScales' = [i \in 1..Len(seeds) |-> seeds[i].scale]
           /\ mpMatrix' = [i \in 1..Len(seeds) |-> identityTransform]
    /\ UNCHANGED mpFrames
    /\ UNCHANGED outsideMountain

\* The useFrame callback of MountainParticles.
MountainFrame ==
    /\ mpPositions # <<>>
    /\ mpFrames < MaxMountainFrames
    /\ \E time \in MountainTimes :
           mpMatrix' = [i \in 1..Len(mpPositions) |->
                           mountainTransform(mpPositions[i], mpScales[i], time)]
    /\ mpFrames' = mpFrames + 1
    /\ UNCHANGED <<mpPositions, mpScales>>
    /\ UNCHANGED outsideMountain

----------------------------------------------------------------------------
(* The overlay: ParticleWeather and its ParticleSystem.                    *)

\* Frame updates of the overlay the model follows after it was seeded.
MaxOverlayFrames == 6

\* ParticleSystem: particleCount.
overlayParticleCount(type) ==
    IF type = "sunny" THEN 150
    ELSE IF type = "cloudy" THEN 80
    ELSE IF type = "rainy" THEN 800
    ELSE IF type = "snowy" THEN 400
    ELSE 150

\* ParticleSystem: one particle of the particles memo, from a draw rp for
\* its place and rotation and a draw rv for its velocity, scale and
\* rotationSpeed.
seedOverlayParticle(type, rp, rv) ==
    [position |-> <<(rp - 500) * 20, (rp - 500) * 20, (rp - 500) * 10>>,
     velocity |->
         <<Scale(rv - 500, 2, 100),
           IF type = "rainy" THEN -100 - Scale(rv, 1, 10)
           ELSE IF type = "snowy" THEN -20 - Scale(rv, 3, 100)
           ELSE IF type = "sunny" THEN 10 + Scale(rv, 1, 100)
           ELSE Scale(rv - 500, 1, 100),
           Scale(rv - 500, 1, 100)>>,
     scale |-> IF type = "rainy" THEN 20
               ELSE IF type = "snowy" THEN 50 + Scale(rv, 5, 100)
               ELSE 100 + Scale(rv, 1, 10),
     rotation |-> Mul(rp, 2 * MathPI),
     rotationSpeed |-> Scale(rv - 500, 2, 100)]

OverlayDraws(type) == { seedOverlayParticle(type, rp, rv) : rp \in Rand, rv \in Rand }

\* The body of forEach in the useFrame callback for one particle, the
\* pointer at mouse and rx the Math.random() of a reset: move, yield to
\* the pointer, turn if snow, and reset what went out of bounds.
overlayStep(p, type, mouse, rx) ==
    LET mouseX == mouse[1] * 10
        mouseY == mouse[2] * 10
        x1 == p.position[1] + p.velocity[1]
        y1 == p.position[2] + p.velocity[2]
        z1 == p.position[3] + p.velocity[3]
        dx == x1 - mouseX
        dy == y1 - mouseY
        dist == MathSqrt(dx * dx + dy * dy)
        force == Scale(2000 - dist, 1, 100)
        x2 == IF dist < 2000 THEN x1 + Mul(dx, force) ELSE x1
        y2 == IF dist < 2000 THEN y1 + Mul(dy, force) ELSE y1
        x3 == IF y2 < -10000 THEN (rx - 500) * 20 ELSE x2
        y3 == IF y2 < -10000 THEN 10000 ELSE y2
        x4 == IF x3 > 10000 THEN -10000 ELSE x3
        x5 == IF x4 < -10000 THEN 10000 ELSE x4
        y5 == IF type = "sunny" /\ y3 > 10000 THEN -10000 ELSE y3
    IN  [p EXCEPT !.position = <<x5, y5, z1>>,
                  !.rotation = IF type = "snowy" THEN p.rotation + p.rotationSpeed
                               ELSE p.rotation]

\* What the frame update writes to dummy for particle p and commits.
overlayTransform(p) ==
    [position |-> p.position,
     scale |-> <<p.scale, p.scale, p.scale>>,
     rotation |-> <<0, 0, p.rotation>>]

\* The particles a frame update can leave, for every x a reset can draw.
overlayOutcomes(ps, type, mouse) ==
    LET outcomes(i) == { overlayStep(ps[i], type, mouse, rx) : rx \in Rand }
    IN  { f \in [1..Len(ps) -> UNION { outcomes(i) : i \in 1..Len(ps) }] :
            \A i \in 1..Len(ps) : f[i] \in outcomes(i) }

\* The mousemove events over the overlay: the pointer along its top edge.
OverlayEvents == { e \in MouseEvents : e.clientY = 0 }

\* Before ParticleWeather's first render; the pointer has not moved.
InitOverlay ==
    /\ opCode = 0
    /\ opParticles = <<>>
    /\ opMatrix = <<>>
    /\ opMouse = <<0, 0>>
    /\ opFrames = 0

\* ParticleSystem renders with weatherCode c: a changed category gives
\* another particleCount, and with it new particles and a new mesh.
OverlayRender ==
    /\ \E c \in SceneCodes :
           LET type == getWeatherType(c)
               n == Tracked(overlayParticleCount(type))
           IN  /\ opCode' = c
               /\ IF opParticles = <<>> \/ type # getWeatherType(opCode)
                  THEN /\ opParticles' \in [1..n -> OverlayDraws(type)]
                       /\ opMatrix' = [i \in 1..n |-> identityTransform]
                       /\ opFrames' = 0
                  ELSE UNCHANGED <<opParticles, opMatrix, opFrames>>
    /\ UNCHANGED opMouse
    /\ UNCHANGED outsideOverlay

\* handleMouseMove of ParticleWeather: the pointer from -1 to 1 across the
\* window, y upwards.
OverlayMouseMove ==
    /\ \E e \in OverlayEvents :
           opMouse' = <<Scale(e.clientX * 1000, 2, window.innerWidth) - 1000,
                        1000 - Scale(e.clientY * 1000, 2, window.innerHeight)>>
    /\ UNCHANGED <<opCode, opParticles, opMatrix, opFrames>>
    /\ UNCHANGED outsideOverlay

\* The useFrame callback of ParticleSystem.
OverlayFrame ==
    /\ opParticles # <<>>
    /\ opFrames < MaxOverlayFrames
    /\ \E moved \in overlayOutcomes(opParticles, getWeatherType(opCode), opMouse) :
           /\ opParticles' = moved
           /\ opMatrix' = [i \in 1..Len(moved) |-> overlayTransform(moved[i])]
    /\ opFrames' = opFrames + 1
    /\ UNCHANGED <<opCode, opMouse>>
    /\ UNCHANGED outsideOverlay

----------------------------------------------------------------------------

Init ==
    /\ InitHeight
    /\ InitClassify
    /\ InitSun
    /\ InitPrecip
    /\ InitAmbient
    /\ InitClouds
    /\ InitWeather
    /\ InitPalette
    /\ InitCamera
    /\ InitMountain
    /\ InitOverlay

\* The build whose scene imports hooks/useSunPosition.ts.
InitScene ==
    /\ Init
    /\ sunHook = "sun"

NextHeight == MeshVertex \/ MeshRebuild

SpecHeight == Init /\ [][NextHeight]_vars

NextClassify == Classify

SpecClassify == Init /\ [][NextClassify]_vars

NextSun == SunMount \/ SunTick \/ SunUnmount \/ ClockAdvance

SpecSun == Init /\ [][NextSun]_vars

NextPrecip == PrecipRender \/ PrecipRenderNight \/ PrecipFrame

SpecPrecip == InitScene /\ [][NextPrecip]_vars

NextScene == SceneRender \/ SceneRenderNight \/ SceneFrame

SpecScene == InitScene /\ [][NextScene]_vars

NextClouds == VolumetricCloudsRender \/ CloudParticlesMount \/ CloudFrame

SpecClouds == InitScene /\ [][NextClouds]_vars

NextWeather ==
    \/ WeatherMount
    \/ WeatherTick
    \/ FetchResolve
    \/ FetchResolvePartial
    \/ FetchFail
    \/ WeatherUnmount
    \/ HeroFrame

SpecWeather == InitScene /\ [][NextWeather]_vars

\* The two hooks with a periodic refresh, from mount to teardown.
NextTeardown ==
    \/ NextSun
    \/ WeatherMount
    \/ WeatherTick
    \/ FetchResolve
    \/ FetchFail
    \/ WeatherUnmount

SpecTeardown == InitScene /\ [][NextTeardown]_vars

\* The weather hook and the scene HeroSection mounts for it.
NextHero ==
    \/ WeatherMount
    \/ WeatherTick
    \/ HeroResolve
    \/ HeroFail
    \/ HeroUnmount
    \/ HeroSceneFrame

SpecHero == InitScene /\ [][NextHero]_vars

NextContent == ContentRender \/ ContentMount \/ ContentTick \/ SceneFrame

SpecContent == InitScene /\ [][NextContent]_vars

NextCamera ==
    \/ CameraMouseMove
    \/ CameraFrame

SpecCamera == InitScene /\ [][NextCamera]_vars

\* Precipitation over a long run: the host's render loop calls the frame
\* callback again and again for as long as there is a pool.
NextFall ==
    \/ FallRender
    \/ FallFrame

SpecFall == InitScene /\ [][NextFall]_vars /\ WF_vars(FallFrame)

NextMountain ==
    \/ MountainMount
    \/ MountainFrame

SpecMountain == InitScene /\ [][NextMountain]_vars

NextOverlay ==
    \/ OverlayRender
    \/ OverlayMouseMove
    \/ OverlayFrame

SpecOverlay == InitScene /\ [][NextOverlay]_vars

----------------------------------------------------------------------------
(* C1: for every horizontal coordinate (x, z) getMountainHeight returns a  *)
(* value >= 0, also inside the crater and where noise and asymmetry are    *)
(* negative (both versions of the function).                               *)
HeightNonNegative ==
    /\ heightOut >= 0
    /\ heightOutParticles >= 0

\* The clamp is what decides: off the cone, where the raw sum is negative.
HeightClampWitness ==
    /\ mountainRaw(hx, hz) < 0
    /\ heightOut = 0
    /\ heightOutParticles = 0

\* Inside the crater the carved height is still well above zero.
HeightCraterCase ==
    /\ MathSqrt(hx * hx + hz * hz) < 1800
    /\ MathSqrt(hx * hx + hz * hz) > 0
    /\ heightOut > 0
    /\ heightOut < heightOutParticles

(* C2: every integer code outside the known WMO ranges, negative codes   *)
(* and codes above 99 such as 9999 included, is classified sunny.          *)
UnknownCodeIsSunny ==
    code \notin KnownCodes => weatherType = "sunny"

(* C3: getWeatherType is total and stable: every code yields exactly one   *)
(* of the four categories, a code classified twice yields the same         *)
(* category, and 0 -> sunny, 3 -> cloudy, 61 -> rainy, 71 -> snowy.        *)
ClassifyTotalStable ==
    /\ weatherType \in WeatherTypes
    /\ prevType \in WeatherTypes
    /\ (code = prevCode => weatherType = prevType)
    /\ (code = 0 => weatherType = "sunny")
    /\ (code = 3 => weatherType = "cloudy")
    /\ (code = 61 => weatherType = "rainy")
    /\ (code = 71 => weatherType = "snowy")

\* Code 3 classified twice in a row, cloudy both times.
ClassifyTwiceWitness ==
    /\ code = 3
    /\ prevCode = 3
    /\ weatherType = "cloudy"
    /\ prevType = "cloudy"

(* C4: codes are grouped by physical similarity: fog 45 and 48 with cloudy *)
(* (as 2 and 3); drizzle, rain, showers and thunderstorm (51-67, 80-82,    *)
(* 95-99) with rainy; every snow code (71-77, 85-86) with snowy.           *)
ClassifyGroups ==
    /\ (code \in {2, 3, 45, 48} => weatherType = "cloudy")
    /\ (code \in (51..67) \cup (80..82) \cup (95..99) => weatherType = "rainy")
    /\ (code \in (71..77) \cup (85..86) => weatherType = "snowy")

\* A snow shower (86) classified snowy right after fog (48) was classified
\* cloudy.
ClassifyGroupsWitness ==
    /\ prevCode = 48
    /\ prevType = "cloudy"
    /\ code = 86
    /\ weatherType = "snowy"

(* C5: in every SolarState published by useSunPosition, isNight is true   *)
(* exactly when the elevation (y) component of the published light         *)
(* position is negative.                                                   *)
NightIffPositionBelowHorizon ==
    sunData.isNight <=> sunData.position[2] < 0

(* C5, amended: isNight is true exactly when the elevation sin(angle) of   *)
(* the time of day the state was computed from is negative.  The sign of   *)
(* the published y agrees with it only in the hook that keeps the sun's    *)
(* position at night; in the hook that substitutes the moon the published  *)
(* y is never negative, and positive at night.                             *)
NightIffElevationNegative ==
    /\ sunHours = -1 => sunData = initialSunData
    /\ sunHours # -1 => (sunData.isNight <=> SinAngle(sunHours) < 0)
    /\ sunHook = "sun" => (sunData.isNight <=> sunData.position[2] < 0)
    /\ sunHook = "moon" => sunData.position[2] >= 0
    /\ sunHook = "moon" /\ sunData.isNight => sunData.position[2] > 0

\* 02:00 published by the hook with the moon: night, the light above the
\* horizon.
NightMoonAboveHorizon ==
    /\ sunHook = "moon"
    /\ sunHours = 2
    /\ sunData.isNight
    /\ sunData.position[2] > 0

(* C6: for every time of day whose elevation sin(angle) is negative, the   *)
(* published SolarState has isNight = TRUE and its light position is the   *)
(* antipodal moon position (cos(angle + pi) * 100, sin(angle + pi) * 100,  *)
(* 0), not the sun position.                                               *)
NightUsesMoonPosition ==
    (sunHours # -1 /\ SinAngle(sunHours) < 0) =>
        /\ sunData.isNight
        /\ sunData.position =
               <<CosMoonAngle(sunHours) * 100, SinMoonAngle(sunHours) * 100, 0>>

(* C7: after every frame update of the precipitation population no       *)
(* particle has y below the lower bound -10: a particle whose fall step    *)
(* takes it below -10 is reset to y = 20 inside that same update, before   *)
(* its transform is committed.                                             *)
PrecipNeverBelowBottom ==
    \A i \in 1..Len(wpParticles) :
        /\ wpParticles[i].y >= -10000
        /\ wpMatrix[i].position[2] >= -10000
        /\ wpFrames > 0 => wpMatrix[i].position[2] = wpParticles[i].y

\* A particle was recycled by the last update: it is committed at y = 20,
\* which no seed and no fall step of a particle that was not reset gives
\* within the first frames.
PrecipRecycledWitness ==
    /\ wpFrames > 0
    /\ \E i \in 1..Len(wpParticles) :
           /\ wpParticles[i].y = 20000
           /\ wpMatrix[i].position[2] = 20000

(* C8: after any number of frame updates no cloud's committed x exceeds   *)
(* the wrap bound (30 for the cloud group, 25 for a cloud particle) by     *)
(* more than one frame's drift, however large the elapsed time.  One       *)
(* frame's drift is taken as the clock term 0.2 * delta of the last frame  *)
(* plus the full swing 1.0 of the sinusoidal drift.                        *)
CloudsWithinWrapBound ==
    /\ groupX <= 30000 + Mul(driftSpeed(getWeatherType(vcCode)), frameDelta)
    /\ \A i \in 1..Len(cpMatrix) :
           cpMatrix[i][1] <= 25000 + Scale(frameDelta, 2, 10) + 1000

(* C9: when the weather category changes, every particle that exists      *)
(* before and after the change keeps its position and phase: the           *)
(* precipitation particles on a change between rainy and snowy, the        *)
(* ambient particles on a change between sunny and another category.       *)
ParticlesKeptOnCategoryChange ==
    [][ /\ (getWeatherType(wpCode') # wpType /\ wpCount # 0 /\ wpCount' # 0) =>
              \A i \in 1..Min(Len(wpParticles), Len(wpParticles')) :
                  /\ wpParticles'[i].x = wpParticles[i].x
                  /\ wpParticles'[i].y = wpParticles[i].y
                  /\ wpParticles'[i].z = wpParticles[i].z
                  /\ wpParticles'[i].offset = wpParticles[i].offset
        /\ (getWeatherType(apCode') # apType /\ apCount # 0
                /\ "sunny" \in {apType, getWeatherType(apCode')}) =>
              \A i \in 1..Min(Len(apParticles), Len(apParticles')) :
                  /\ apParticles'[i].x = apParticles[i].x
                  /\ apParticles'[i].y = apParticles[i].y
                  /\ apParticles'[i].z = apParticles[i].z
                  /\ apParticles'[i].phase = apParticles[i].phase
      ]_vars

(* C9, amended: a render recomputes size and colour from the category, and *)
(* it keeps the particles only while the memo's dependencies stand.  The   *)
(* precipitation pool is kept when the category is the same and is seeded  *)
(* from scratch when it changed: every particle is then at a seed height   *)
(* with the new category's seed speed, and no frame update has run on it.  *)
(* The ambient pool is kept, with its committed transforms, on a change    *)
(* between non-sunny categories, and on a change between sunny and another *)
(* category it is computed anew and its mesh starts with blank transforms. *)
ParticlesReseededOnCategoryChange ==
    [][ /\ wpCount' = weatherParticleCount(getWeatherType(wpCode'))
        /\ wpColor'.base = weatherParticleColor(getWeatherType(wpCode'), FALSE).base
        /\ getWeatherType(wpCode') = wpType =>
               /\ wpParticles' = wpParticles \/ wpFrames' = wpFrames + 1
               /\ wpCount' = wpCount
        /\ getWeatherType(wpCode') # wpType =>
               /\ wpFrames' = 0
               /\ \A i \in 1..Len(wpParticles') :
                      /\ wpParticles'[i].y \in {0, 999 * 30}
                      /\ getWeatherType(wpCode') = "rainy" =>
                             wpParticles'[i].speed \in 300..500
                      /\ getWeatherType(wpCode') = "snowy" =>
                             wpParticles'[i].speed \in 50..100
               /\ \A i \in 1..Len(wpMatrix') : wpMatrix'[i] = identityTransform
        /\ apCount' = ambientParticleCount(getWeatherType(apCode'))
        /\ (apCount # 0 /\ "sunny" \notin {apType, getWeatherType(apCode')}) =>
               /\ apParticles' = apParticles
               /\ apCode' # apCode => apMatrix' = apMatrix
        /\ (getWeatherType(apCode') # apType
                /\ "sunny" \in {apType, getWeatherType(apCode')}) =>
               \A i \in 1..Len(apMatrix') : apMatrix'[i] = identityTransform
      ]_vars

\* Rain has turned to snow after frames were drawn: the snow is newly
\* seeded on a new mesh, the ambient particles still carry the transforms
\* of the last frame.
CategoryChangedWitness ==
    /\ wpPrevType = "rainy"
    /\ wpType = "snowy"
    /\ wpFrames = 0
    /\ apType = "snowy"
    /\ \A i \in 1..Len(wpMatrix) : wpMatrix[i] = identityTransform
    /\ \E i \in 1..Len(apMatrix) : apMatrix[i] # identityTransform

(* C10: while no weather value has arrived yet (the first fetch is still  *)
(* pending) the scene is rendered, with the default category sunny: the    *)
(* particle scene never waits for the weather fetch to settle.             *)
SceneRendersWhilePending ==
    (weatherPhase = "mounted" /\ data.loading) =>
        /\ sceneMounted
        /\ getWeatherType(sceneCode) = "sunny"

(* C11: a failed weather fetch (network error, non-OK response or         *)
(* malformed payload) leaves the stored weatherCode, and so the category,  *)
(* unchanged, sets the error flag to a message and loading to false; a     *)
(* later successful fetch resets the error flag to null.                   *)
FailedFetchKeepsWeather ==
    [][ (fetches' = fetches - 1 /\ weatherPhase # "unmounted") =>
            /\ settled' \in {"thrown", "partial"} =>
                   /\ data'.weatherCode = data.weatherCode
                   /\ getWeatherType(data'.weatherCode) = getWeatherType(data.weatherCode)
                   /\ data'.error # "null"
                   /\ ~data'.loading
            /\ settled' = "response" =>
                   /\ data'.error = "null"
                   /\ ~data'.loading
      ]_vars

(* C12: the precipitation pool size is 2000 for rainy, 1500 for snowy and *)
(* 0 for sunny and cloudy: the pool is non-empty exactly when the category *)
(* is rainy or snowy, and the rainy size is greater than the sunny size.   *)
PrecipPoolSizes ==
    /\ wpType = "rainy" => wpCount = 2000
    /\ wpType = "snowy" => wpCount = 1500
    /\ wpType \in {"sunny", "cloudy"} => wpCount = 0
    /\ wpCount # 0 <=> wpType \in {"rainy", "snowy"}
    /\ Len(wpParticles) # 0 <=> wpType \in {"rainy", "snowy"}
    /\ weatherParticleCount("rainy") > weatherParticleCount("sunny")

\* The sky has turned overcast after rain: the pool is empty.
PrecipPoolEmptiedWitness ==
    /\ wpPrevType = "rainy"
    /\ wpType = "cloudy"
    /\ wpCount = 0
    /\ wpParticles = <<>>

(* C13: a frame update never adds or removes particles: in every state   *)
(* the length of a population's particle array, and of its mesh, is the    *)
(* count configured for the current category (of which the model keeps the *)
(* first TrackedParticles), before and after each update.                  *)
PoolSizeFixedByCategory ==
    /\ wpCount = weatherParticleCount(wpType)
    /\ Len(wpParticles) = Tracked(wpCount)
    /\ Len(wpMatrix) = Tracked(wpCount)
    /\ apCount # 0 =>
           /\ apCount = ambientParticleCount(apType)
           /\ Len(apParticles) = Tracked(apCount)
           /\ Len(apMatrix) = Tracked(apCount)

\* Both populations have been updated by a frame and are as long as
\* before.
PoolsUpdatedWitness ==
    /\ wpFrames = MaxSceneFrames
    /\ Len(wpParticles) = TrackedParticles
    /\ Len(apParticles) = TrackedParticles
    /\ \A i \in 1..Len(wpMatrix) : wpMatrix[i] # identityTransform
    /\ \A i \in 1..Len(apMatrix) : apMatrix[i] # identityTransform

(* C14: the solar state is written only by the computation at mount and  *)
(* by the 60-second timer tick: frame updates between two ticks leave it   *)
(* unchanged, and no frame update writes the weather code or the solar     *)
(* state the scene reads.                                                  *)
SolarWrittenByTimerOnly ==
    [][ /\ sunData' # sunData =>
               /\ sunHours' = clockHour'
               /\ sunData' = publishedSun(clockHour')
               /\ (sunPhase = "rendered" /\ sunPhase' = "mounted") \/ sunInterval
        /\ (apCount # 0 /\ apCount' = apCount
                /\ (wpFrames' = wpFrames + 1 \/ apMatrix' # apMatrix)) =>
               /\ UNCHANGED <<sunData, sunHours>>
               /\ UNCHANGED <<wpCode, apCode, vcCode, data>>
      ]_vars

\* Snow has been updated by frames since the solar state was computed
\* for 02:00, and the solar state is still the one of 02:00.
FramesBetweenTicksWitness ==
    /\ sunPhase = "mounted"
    /\ sunHours = 2
    /\ sunData = publishedSun(2)
    /\ wpType = "snowy"
    /\ wpFrames = MaxSceneFrames

(* C15: when the component that owns a periodic refresh is torn down its *)
(* timer is cleared: after teardown no solar recomputation tick fires and  *)
(* no further weather fetch is started.                                    *)
TimersClearedOnTeardown ==
    [][ /\ sunPhase = "unmounted" =>
               /\ ~sunInterval
               /\ UNCHANGED <<sunData, sunHours, sunInterval, sunPhase>>
        /\ weatherPhase = "unmounted" =>
               /\ ~weatherInterval
               /\ fetches' <= fetches
               /\ UNCHANGED <<weatherInterval, weatherPhase>>
        /\ sunPhase' = "unmounted" => ~sunInterval'
        /\ weatherPhase' = "unmounted" => ~weatherInterval'
      ]_vars

\* Both hooks are torn down; the wall clock has moved on since the last
\* solar computation and a fetch is still in flight.
TornDownWitness ==
    /\ sunPhase = "unmounted"
    /\ weatherPhase = "unmounted"
    /\ sunHours # -1
    /\ clockHour # sunHours
    /\ fetches > 0

(* C16: weather code 71 at hour 2 yields category snowy and isNight =    *)
(* TRUE; the precipitation population then uses snow parameters (pool of   *)
(* 1500, fall speed in [0.05, 0.1), sway and rotation applied in every     *)
(* frame) and the mountain and cloud colours are the night palette.        *)
SnowyNightScenario ==
    (wpCode = 71 /\ vcCode = 71 /\ sunHours = 2) =>
        /\ wpType = "snowy"
        /\ sunData.isNight
        /\ wpCount = 1500
        /\ wpColor = [base |-> "0xFFFFFF", factor |-> 600]
        /\ \A i \in 1..Len(wpParticles) : wpParticles[i].speed \in 50..99
        /\ wpFrames > 0 =>
               \E time \in Times :
                   /\ \A i \in 1..Len(wpMatrix) :
                          /\ wpMatrix[i].rotation =
                                 <<time + wpParticles[i].offset,
                                   Scale(time, 5, 10) + wpParticles[i].offset, 0>>
                          /\ wpMatrix[i].position[1] - wpParticles[i].x =
                                 Scale(MathSin(time + wpParticles[i].offset), 5, 10)
                          /\ wpMatrix[i].position[3] - wpParticles[i].z =
                                 Scale(MathCos(time + Scale(wpParticles[i].offset, 7, 10)), 3, 10)
                          /\ wpMatrix[i].scale = <<80, 80, 80>>
                   /\ wpDummy.rotation = wpMatrix[Len(wpMatrix)].rotation
        /\ vcNight
        /\ cloudConfig(getWeatherType(vcCode), vcNight) =
               [color |-> [base |-> "#e8ebed", factor |-> 150], opacity |-> 420]
        /\ meshNight
        /\ mountainColor(7000, meshNight) =
               [color |-> <<810, 850, 880>>, emissive |-> "0x050510"]
        /\ mountainColor(3000, meshNight) =
               [color |-> <<170, 200, 210>>, emissive |-> "0x050510"]

\* Light snow at 02:00, swaying: a frame at a quarter turn of the clock
\* has been drawn.
SnowyNightWitness ==
    /\ wpCode = 71
    /\ sunHours = 2
    /\ wpFrames > 0
    /\ vcNight
    /\ \E i \in 1..Len(wpMatrix) : wpMatrix[i].position[1] # wpParticles[i].x

(* C17: weather code 0 at hour 12 yields category sunny and isNight =     *)
(* FALSE; the ambient population then has its sunny size 300, larger than  *)
(* its size 100 under every other category, and the precipitation          *)
(* population has size 0.                                                  *)
SunnyNoonScenario ==
    (apCode = 0 /\ wpCode = 0 /\ apCount # 0 /\ sunHours = 12) =>
        /\ apType = "sunny"
        /\ ~sunData.isNight
        /\ apCount = 300
        /\ \A t \in WeatherTypes \ {"sunny"} :
               /\ ambientParticleCount(t) = 100
               /\ ambientParticleCount(t) < apCount
        /\ apColor = [base |-> "0xFFD700"]
        /\ wpCount = 0
        /\ wpParticles = <<>>
        /\ wpMatrix = <<>>

\* Clear sky at noon, and the ambient particles have been drawn.
SunnyNoonWitness ==
    /\ apCode = 0
    /\ wpCode = 0
    /\ sunHours = 12
    /\ apCount = 300
    /\ \E i \in 1..Len(apMatrix) : apMatrix[i] # identityTransform

(* C18: with angle = ((hour - 6) / 24) * 2 pi, at hour 6 the elevation   *)
(* is 0 and the light is at the eastern extreme (100, 0, 0), at hour 12    *)
(* the elevation is 1 and the light is at the zenith (0, 100, 0), at hour  *)
(* 18 the elevation is 0 and the light is at the western extreme           *)
(* (-100, 0, 0); at each of the three hours the elevation is >= 0, the     *)
(* state is not night and the sun position is used.  Coordinates are       *)
(* compared to within 0.0001: Math.sin(Math.PI) and Math.cos(Math.PI / 2)  *)
(* are some 1e-16 above zero.                                              *)
CardinalHours ==
    LET near(a, b) == a - b \in -100..100
        at(h, x, y) ==
            sunHours = h =>
                /\ near(sunData.position[1], x)
                /\ near(sunData.position[2], y)
                /\ sunData.position[3] = 0
    IN  /\ at(6, 100000000, 0)
        /\ at(12, 0, 100000000)
        /\ at(18, -100000000, 0)
        /\ sunHours \in {6, 12, 18} =>
               /\ SinAngle(sunHours) >= 0
               /\ SinAngle(sunHours) - (IF sunHours = 12 THEN 1000000 ELSE 0) \in 0..1
               /\ ~sunData.isNight
               /\ sunData.position =
                      <<CosAngle(sunHours) * 100, SinAngle(sunHours) * 100, 0>>

\* 18:00 published by the hook with the moon: not night, the sun at the
\* western extreme.
SunsetWitness ==
    /\ sunHook = "moon"
    /\ sunHours = 18
    /\ ~sunData.isNight
    /\ sunData.position[1] = -100000000

(* C19: a precipitation population whose count is zero (sunny or cloudy)  *)
(* is a safe no-op: its frame update and its colour update touch no        *)
(* particle and no mesh and nothing is rendered for it, in every sequence  *)
(* of weather changes into and out of a zero-count category.               *)
ZeroCountIsNoOp ==
    [][ /\ wpCount' = 0 =>
               /\ getWeatherType(wpCode') \in {"sunny", "cloudy"}
               /\ wpParticles' = <<>>
               /\ wpMatrix' = <<>>
               /\ Len(wpMatrix') = 0
        /\ wpCount = 0 => instanceColors = <<>>
        /\ (wpCount = 0 /\ apCount' = apCount /\ apCode' = apCode
                /\ apMatrix' # apMatrix) =>
               UNCHANGED precipVars
      ]_vars

\* Snow has given way to a clear sky, and a frame has been drawn since.
ZeroCountFrameWitness ==
    /\ wpPrevType = "snowy"
    /\ wpType = "sunny"
    /\ wpCount = 0
    /\ apCount = 300
    /\ \E i \in 1..Len(apMatrix) : apMatrix[i] # identityTransform

(* C20: each frame the camera x and y move exactly 2% of the remaining   *)
(* distance toward the target (2 * pointer.x, pointer.y + 2) computed      *)
(* from the latest pointer value; the distance to the target does not      *)
(* increase and the camera does not overshoot the target; the camera z is  *)
(* never changed; every frame re-aims the camera at (0, 3, 0).             *)
CameraEasesToPointer ==
    [][ /\ cameraPosition'[3] = cameraPosition[3]
        /\ cameraFrames' # cameraFrames =>
               LET targetX == 2 * mouseRef[1]
                   targetY == mouseRef[2] + 2 * CameraUnit
                   dist(t, v) == IF t >= v THEN t - v ELSE v - t
               IN  /\ 100 * (cameraPosition'[1] - cameraPosition[1]) =
                          2 * (targetX - cameraPosition[1])
                   /\ 100 * (cameraPosition'[2] - cameraPosition[2]) =
                          2 * (targetY - cameraPosition[2])
                   /\ dist(targetX, cameraPosition'[1]) <= dist(targetX, cameraPosition[1])
                   /\ dist(targetY, cameraPosition'[2]) <= dist(targetY, cameraPosition[2])
                   /\ cameraPosition[1] <= targetX => cameraPosition'[1] <= targetX
                   /\ cameraPosition[1] >= targetX => cameraPosition'[1] >= targetX
                   /\ cameraPosition[2] <= targetY => cameraPosition'[2] <= targetY
                   /\ cameraPosition[2] >= targetY => cameraPosition'[2] >= targetY
                   /\ cameraLookAt' = <<0, 3 * CameraUnit, 0>>
      ]_vars

\* Two frames drawn with the pointer in the top right corner: the camera is
\* on its way there, short of the target on both axes.
CameraUnderwayWitness ==
    /\ cameraFrames >= 2
    /\ mouseRef = <<CameraUnit, -CameraUnit>>
    /\ cameraPosition[1] > 0
    /\ cameraPosition[1] < 2 * CameraUnit
    /\ cameraPosition[2] > CameraUnit
    /\ cameraPosition[2] < 2 * CameraUnit
    /\ cameraLookAt = <<0, 3 * CameraUnit, 0>>

(* C21: a failed weather fetch does not trigger an immediate retry:      *)
(* fetches are started only by the mount of the hook and by a tick of the  *)
(* 30-minute timer, one fetch each, so that between two consecutive ticks  *)
(* at most one fetch is started; the step in which a fetch settles starts  *)
(* none.                                                                   *)
NoImmediateRetry ==
    [][ /\ fetches' > fetches =>
               /\ fetches' = fetches + 1
               /\ weatherInterval'
               /\ \/ weatherPhase = "rendered" /\ weatherPhase' = "mounted"
                  \/ weatherInterval /\ weatherPhase' = weatherPhase
               /\ data' = data
               /\ settled' = settled
        /\ (data' # data \/ settled' # settled) => fetches' = fetches - 1
      ]_vars

\* A fetch has failed, none is in flight, and the timer is still set: the
\* next attempt waits for the tick.
FailedAwaitingTickWitness ==
    /\ settled = "thrown"
    /\ data.error # "null"
    /\ fetches = 0
    /\ weatherInterval

(* C22: every mountain particle is seeded at horizontal distance below   *)
(* 18 from the origin with stored y satisfying                             *)
(* -5 <= y <= getMountainHeight(x, z) - 5; frame updates never modify the  *)
(* stored positions or scales, and the committed position differs from     *)
(* the stored one by at most 0.02 in x and in z and not at all in y.       *)
MountainParticlesStayPut ==
    [][ /\ \A i \in 1..Len(mpPositions') :
               LET x == mpPositions'[i][1]
                   y == mpPositions'[i][2]
                   z == mpPositions'[i][3]
               IN  /\ MathSqrt(x * x + z * z) < 18000
                   /\ -5000 <= y
                   /\ y <= getMountainHeightParticles(x, z) - 5000
        /\ mpFrames' # mpFrames =>
               /\ mpPositions' = mpPositions
               /\ mpScales' = mpScales
               /\ \A i \in 1..Len(mpPositions) :
                      /\ mpMatrix'[i].position[1] - mpPositions[i][1] \in -20..20
                      /\ mpMatrix'[i].position[3] - mpPositions[i][3] \in -20..20
                      /\ mpMatrix'[i].position[2] = mpPositions[i][2]
      ]_vars

\* A particle seeded on the slope, above the base plane, and displaced by
\* a frame.
MountainBreathingWitness ==
    /\ mpFrames > 0
    /\ \E i \in 1..Len(mpPositions) :
           /\ mpPositions[i][2] > -5000
           /\ mpPositions[i][1] # 0
           /\ mpMatrix[i].position[1] # mpPositions[i][1]
           /\ mpMatrix[i].position[2] = mpPositions[i][2]

(* C23: a frame update of the ambient population never modifies a stored *)
(* particle field (x, y, z, speed, phase); the committed position is       *)
(* within 0.2 of the stored x, within 0.5 of the stored y and equal to the *)
(* stored z, so the particles stay where they were seeded (|x|, |z| <= 15, *)
(* |y| <= 10) and none is recycled.                                        *)
AmbientFloatsInPlace ==
    [][ /\ \A i \in 1..Len(apParticles') :
               /\ apParticles'[i].x \in -15000..15000
               /\ apParticles'[i].y \in -10000..10000
               /\ apParticles'[i].z \in -15000..15000
        /\ (apCount' = apCount /\ apMatrix' # apMatrix) =>
               /\ apParticles' = apParticles
               /\ Len(apMatrix') = Len(apParticles)
               /\ \A i \in 1..Len(apParticles) :
                      /\ apMatrix'[i].position[1] - apParticles[i].x \in -200..200
                      /\ apMatrix'[i].position[2] - apParticles[i].y \in -500..500
                      /\ apMatrix'[i].position[3] = apParticles[i].z
      ]_vars

\* A frame has displaced an ambient particle of the thin pool from its
\* stored place.
AmbientDisplacedWitness ==
    /\ apCount = 100
    /\ \E i \in 1..Len(apMatrix) :
           /\ apMatrix[i] # identityTransform
           /\ apMatrix[i].position[2] # apParticles[i].y
           /\ apMatrix[i].position[3] = apParticles[i].z

(* C24: in every published solar state the night lighting preset (night  *)
(* intensity, night ambient intensity, night tint) is used exactly when    *)
(* isNight is true; at elevation exactly 0 (06:00) the state has isNight   *)
(* false and carries daytime lighting, not the night preset.               *)
NightPresetIffNight ==
    LET nightPreset ==
            \/ /\ sunData.intensity = 0
               /\ sunData.ambientIntensity = 50000
               /\ sunData.color = "#1a1a2e"
            \/ /\ sunData.intensity = 400000
               /\ sunData.ambientIntensity = 150000
               /\ sunData.color = "#b9c6d2"
    IN  sunHours # -1 =>
            /\ nightPreset <=> sunData.isNight
            /\ sunHours = 6 =>
                   /\ ~sunData.isNight
                   /\ sunData.color \in {"#ff9e22", "#ffcf8a", "#ffffff"}
                   /\ sunData.ambientIntensity = 200000

(* C25: whenever the category is rainy, every precipitation particle is  *)
(* committed with zero rotation and zero sway, whatever categories were    *)
(* shown earlier, also in the first frames after a change from snowy to    *)
(* rainy, when the shared transform object was last used for a rotated     *)
(* snowflake.                                                              *)
RainFallsUnrotated ==
    wpType = "rainy" =>
        \A i \in 1..Len(wpMatrix) :
            /\ wpMatrix[i].rotation = <<0, 0, 0>>
            /\ wpMatrix[i] # identityTransform =>
                   /\ wpMatrix[i].position[1] = wpParticles[i].x
                   /\ wpMatrix[i].position[3] = wpParticles[i].z

(* C26: while the category is rainy or snowy and frames keep ticking,    *)
(* every precipitation particle is recycled (reset to y = 20) infinitely   *)
(* often; every fall speed is at least 0.05 per frame and every y is below *)
(* 30, and a particle is recycled within at most 800 frame updates of its  *)
(* seeding or previous recycle.                                            *)
PrecipRecycledForever ==
    /\ [](\A i \in 1..Len(wpParticles) :
              /\ wpParticles[i].speed >= 50
              /\ wpParticles[i].y < 30000
              /\ wpAge[i] < 800)
    /\ \A i \in 1..TrackedParticles :
           \A type \in {"rainy", "snowy"} :
               \/ []<>(wpType # type)
               \/ []<>(/\ wpType = type
                       /\ wpAge[i] = 0
                       /\ wpParticles[i].y = 20000)

\* Snow, 799 updates after the pool was seeded: a flake seeded near the
\* top at the lowest speed is about to reach the bottom for the first time,
\* another one has been reset twice.
SlowestFallWitness ==
    /\ wpType = "snowy"
    /\ \E i, j \in 1..Len(wpParticles) :
           /\ wpAge[i] = 799
           /\ wpParticles[i].speed = 50
           /\ wpAge[j] = 598
           /\ wpParticles[j].y = -9900

(* C27: in the overlay particle system, after every frame update every  *)
(* particle satisfies -10 <= x <= 10 and -10 <= y <= 10, for every weather *)
(* category and every pointer position: a particle leaving the box on any  *)
(* side is recycled within that update.                                    *)
OverlayStaysInBox ==
    opFrames > 0 =>
        \A i \in 1..Len(opParticles) :
            /\ opParticles[i].position[1] \in -10000..10000
            /\ opParticles[i].position[2] \in -10000..10000
            /\ opMatrix[i].position = opParticles[i].position

\* A fetchWeather settles while the scene is mounted and App stays mounted.
RefreshOfMountedScene ==
    /\ sceneMounted
    /\ weatherPhase = "mounted"
    /\ fetches' = fetches - 1

(* C28 as stated: once loading is false no later refresh, success or      *)
(* failure, sets it back to true; the scene, once mounted, is never        *)
(* unmounted by a refresh, and the particles and committed transforms of   *)
(* its populations are the same after every refresh as before it.          *)
ParticleStateSurvivesRefresh ==
    [][/\ ~data.loading => ~data'.loading
       /\ (sceneMounted /\ weatherPhase' = "mounted") => sceneMounted'
       /\ RefreshOfMountedScene =>
              UNCHANGED <<wpParticles, wpMatrix, apParticles, apMatrix>>]_vars

(* C28, amended: once loading is false no later refresh sets it back to   *)
(* true and the scene, once mounted, is never unmounted by a refresh; its  *)
(* components persist, the precipitation pool through every refresh that   *)
(* leaves the weather category unchanged (a failed one included) and the   *)
(* ambient pool through every refresh that leaves its particle count       *)
(* unchanged.                                                              *)
SceneSurvivesRefresh ==
    [][/\ ~data.loading => ~data'.loading
       /\ (sceneMounted /\ weatherPhase' = "mounted") => sceneMounted'
       /\ RefreshOfMountedScene =>
              /\ sceneCode' = data'.weatherCode
              /\ wpCode' = data'.weatherCode
              /\ wpDummy' = wpDummy
              /\ getWeatherType(data'.weatherCode) = getWeatherType(data.weatherCode)
                     => UNCHANGED <<wpParticles, wpMatrix, wpAge, wpFrames>>
              /\ ambientParticleCount(getWeatherType(data'.weatherCode))
                         = ambientParticleCount(getWeatherType(data.weatherCode))
                     => UNCHANGED <<apParticles, apMatrix>>]_vars

\* Rain that fell for two frames and is still the same pool after a
\* refresh failed: the last render found the category rainy as before.
RefreshedRainWitness ==
    /\ sceneMounted
    /\ ~data.loading
    /\ settled = "thrown"
    /\ data.error = "message"
    /\ data.weatherCode = 63
    /\ wpType = "rainy"
    /\ wpPrevType = "rainy"
    /\ wpFrames = MaxHeroSceneFrames
    /\ \E i \in 1..Len(wpParticles) : wpAge[i] = MaxHeroSceneFrames

(* C29: when the fetches started have all completed, the weather state    *)
(* was written last by the fetch that was started last; a response to an   *)
(* older request that arrives after the response to a newer one does not   *)
(* overwrite it.                                                           *)
LatestFetchWritesLast ==
    (weatherPhase = "mounted" /\ fetches = 0) => writer = "latest"

====
